---- MODULE Spec2Model ----
(***************************************************************************)
(* A model of src/src/exfer.c: the server-side handler page_xfer, the      *)
(* client-side driver client_sync and the send/receive helpers they share. *)
(*                                                                         *)
(* A message is a sequence of cards.  A card is a record                   *)
(*   [kw, n, h, a, b, c, pay, s]                                           *)
(* kw = aToken[0], n = nToken, h = the hash token, a/b/c = the integer     *)
(* tokens, pay = the payload that follows the line (0 = none) and s = the  *)
(* text token (user name, message text, pragma name).                      *)
(*                                                                         *)
(* Artifacts: content c (a small integer standing for a byte string of     *)
(* SizeOf(c) bytes) has the name HashOf(c).  All names are SHA1 names and  *)
(* no artifact is stored as a delta, so send_delta_native and              *)
(* send_delta_parent return 0 and the SHA3 branch of send_node is not      *)
(* taken.  The unversioned-file and config sub-protocols are left out.     *)
(***************************************************************************)
EXTENDS Integers, Sequences, FiniteSets, TLC

\* ------------------------------------------------------------- bounds
MaxContent == 2     \* contents are 1..MaxContent
MaxCards == 3       \* cards in a request composed by a foreign client
MaxReply == 2       \* cards in a reply composed by a foreign server
MaxCycle == 2       \* round trips of one client_sync run against a foreign server
SrvMxSend == 3      \* "max-download" of the server, in size units
CliMxSend == 4      \* "max-upload" of the client, in size units
CapFiles == 101     \* files received in one reply, in the runs of SpecCap
CapPhantoms == 201  \* phantoms of the client's repository, in the runs of SpecCap
CapCycle == 3       \* round trips of a run of SpecCap
CapReply == 1       \* cards in a reply of a run of SpecCap

\* ------------------------------------------------- program constants
RecentDate == 20200413    \* send_node: date from which "have H 1" is understood
ListThreshold == 100      \* create_list_node: root entries needed to form a list
MxPhantomReq == 200       \* client_sync: initial mxPhantomReq
SrvPartialReq == 500      \* page_xfer: request_partials(&xfer, 500)
CloneVersion == 3         \* "clone 3 N"
ResyncAll == 2147483647   \* client_sync: xfer.resync = 0x7fffffff

Contents == 1..MaxContent
SizeOf(c) == c
\* hname hash of a content; hname_verify_hash compares against it
HashOf(c) == 100 + c
Names == {HashOf(c) : c \in Contents}
hname_verify_hash(content, uuid) == HashOf(content) = uuid
blob_is_hname(h) == h > 100

Min(i, j) == IF i < j THEN i ELSE j

\* ---------------------------------------------------------------- cards
Card(kw, n, h, a, b, c, pay, s) ==
  [kw |-> kw, n |-> n, h |-> h, a |-> a, b |-> b, c |-> c, pay |-> pay, s |-> s]
NoCard == Card("", 0, 0, 0, 0, 0, 0, "")
HaveCard(h, priv) == Card("have", IF priv = 1 THEN 3 ELSE 2, h, priv, 0, 0, 0, "")
IGotCard(h, priv) == Card("igot", IF priv = 1 THEN 3 ELSE 2, h, priv, 0, 0, 0, "")
INeedCard(h, size) == Card("ineed", 3, h, size, 0, 0, 0, "")
NeedCard(h) == Card("need", 2, h, 0, 0, 0, 0, "")
GimmeCard(h) == Card("gimme", 2, h, 0, 0, 0, 0, "")
FileCard(h, content) == Card("file", 3, h, SizeOf(content), 0, 0, content, "")
CFileCard(h, content) == Card("cfile", 4, h, SizeOf(content), SizeOf(content), 0, content, "")
AtomCard(h, size, boffset, eoffset, content) ==
  Card("atom", 5, h, size, boffset, eoffset, content, "")
ListCard(h, content) == Card("list", 3, h, SizeOf(content), 0, 0, content, "")
PrivateCard == Card("private", 1, 0, 0, 0, 0, 0, "")
PullCard(pcode) == Card("pull", 3, pcode, 0, 0, 0, 0, "")
PushCard(pcode) == Card("push", 3, pcode, 0, 0, 0, 0, "")
CloneCard(vers, seqno) == Card("clone", 3, 0, vers, seqno, 0, 0, "")
CloneAllCard == Card("clone", 1, 0, 0, 0, 0, 0, "")
CloneSeqnoCard(seqno) == Card("clone_seqno", 2, 0, seqno, 0, 0, 0, "")
LoginCard(user, nonce, sig) == Card("login", 4, 0, nonce, sig, 0, 0, user)
PragmaCard(name, v, d) == Card("pragma", 5, 0, v, d, 0, 0, name)
ErrorCard(msg) == Card("error", 2, 0, 0, 0, 0, 0, msg)
MessageCard(msg) == Card("message", 2, 0, 0, 0, 0, 0, msg)
CommentCard(text, v) == Card("#", 1, 0, v, 0, 0, 0, text)

\* blob_size of a composed message: one unit per line plus the payload bytes
\* (summed by halves, which keeps the evaluation shallow on long messages)
RECURSIVE OutSize(_)
OutSize(out) ==
  IF out = <<>> THEN 0
  ELSE IF Len(out) = 1
    THEN 1 + (IF Head(out).pay = 0 THEN 0 ELSE SizeOf(Head(out).pay))
  ELSE LET h == Len(out) \div 2
       IN OutSize(SubSeq(out, 1, h)) + OutSize(SubSeq(out, h + 1, Len(out)))

\* ---------------------------------------------------------------- hashing
KwCode(kw) ==
  CASE kw = "atom" -> 1 [] kw = "list" -> 2 [] kw = "need" -> 3 [] kw = "have" -> 4
    [] kw = "pull" -> 5 [] kw = "push" -> 6 [] kw = "clone" -> 7 [] kw = "login" -> 8
    [] kw = "pragma" -> 9 [] kw = "ineed" -> 10 [] kw = "#" -> 11 [] OTHER -> 12
UserCode(u) ==
  CASE u = "alice" -> 1 [] u = "bob" -> 2 [] u = "developer" -> 3
    [] u = "anonymous" -> 4 [] u = "nobody" -> 5 [] OTHER -> 0
CardCode(c) ==
  (KwCode(c.kw) + 13 * c.n + 17 * c.h + 19 * c.a + 23 * c.b + 29 * c.c
     + 31 * c.pay + 37 * UserCode(c.s)) % 9973
\* the hash of the bytes of a message (sha1sum_blob over a blob of cards):
\* c1 + 41 * (c2 + 41 * (... + 41 * 7)) modulo 9973 for the card codes c1, c2,
\* ..., computed as a sum of the codes weighted by powers of 41
RECURSIVE HashPower(_)
HashPower(k) ==
  IF k = 0 THEN 1
  ELSE IF k % 2 = 0 THEN (HashPower(k \div 2) * HashPower(k \div 2)) % 9973
  ELSE (41 * HashPower(k - 1)) % 9973
RECURSIVE HashSum(_, _, _)
HashSum(msg, lo, hi) ==
  IF hi < lo THEN 0
  ELSE IF lo = hi THEN (CardCode(msg[lo]) * HashPower(lo - 1)) % 9973
  ELSE LET h == (lo + hi) \div 2
       IN (HashSum(msg, lo, h) + HashSum(msg, h + 1, hi)) % 9973
MsgHash(msg) == (HashSum(msg, 1, Len(msg)) + 7 * HashPower(Len(msg))) % 9973
\* sha1sum_blob(NONCE || secret)
SigOf(nonce, secret) == 10000 + (nonce * 16 + secret)
\* sha1_shared_secret(pw, login): the 40-character secret derived from a
\* cleartext password
sha1_shared_secret(pw, login) == 8 + ((pw + UserCode(login)) % 8)

\* ---------------------------------------------------------------- store
\* The repository database: nodes[rid] = [uuid, content, priv] with
\* content = 0 for a phantom ("partial": known by name, content not yet
\* received), root = the rids in the root table, shun = the shunned names.
Node(uuid, content, priv) == [uuid |-> uuid, content |-> content, priv |-> priv]
EmptyStore == [nodes |-> <<>>, root |-> {}, shun |-> {}]
Rids(st) == 1..Len(st.nodes)
RidSeq(st) == [i \in 1..Len(st.nodes) |-> i]
\* SELECT nid FROM node WHERE uuid=:uuid
nid_lookup(st, uuid) ==
  IF \E i \in Rids(st) : st.nodes[i].uuid = uuid
    THEN CHOOSE i \in Rids(st) : st.nodes[i].uuid = uuid
    ELSE 0
uuid_is_shunned(st, uuid) == uuid \in st.shun
content_is_private(st, rid) == rid \in Rids(st) /\ st.nodes[rid].priv
\* content_new: a new phantom for uuid; 0 for a shunned name
content_new(st, uuid, isPriv) ==
  IF uuid_is_shunned(st, uuid) THEN [st |-> st, rid |-> 0]
  ELSE IF nid_lookup(st, uuid) # 0 THEN [st |-> st, rid |-> nid_lookup(st, uuid)]
  ELSE [st |-> [st EXCEPT !.nodes = Append(@, Node(uuid, 0, isPriv))],
        rid |-> Len(st.nodes) + 1]
nid_from_uuid(st, uuid, phantomize, isPrivate) ==
  LET rid == nid_lookup(st, uuid)
  IN IF rid = 0 /\ phantomize THEN content_new(st, uuid, isPrivate)
     ELSE [st |-> st, rid |-> rid]
\* content_put_ex(pBlob, zUuid, 0, 0, isPrivate): the blob is stored under
\* the name it is given; a phantom of that name receives the content
content_put_ex(st, content, uuid, isPriv) ==
  LET rid == nid_lookup(st, uuid)
  IN IF rid = 0
       THEN [st |-> [st EXCEPT !.nodes = Append(@, Node(uuid, content, isPriv)),
                               !.root = IF isPriv THEN @ ELSE @ \cup {Len(st.nodes) + 1}],
             rid |-> Len(st.nodes) + 1]
     ELSE IF st.nodes[rid].content = 0
       THEN [st |-> [st EXCEPT !.nodes[rid].content = content,
                               !.root = IF st.nodes[rid].priv THEN @ ELSE @ \cup {rid}],
             rid |-> rid]
     ELSE [st |-> st, rid |-> rid]
content_make_public(st, rid) ==
  IF rid \in Rids(st) THEN [st EXCEPT !.nodes[rid].priv = FALSE] ELSE st
content_make_private(st, rid) ==
  IF rid \in Rids(st) THEN [st EXCEPT !.nodes[rid].priv = TRUE] ELSE st
\* the names whose content the store holds, and the (name, content) pairs
Present(st) == {st.nodes[i].uuid : i \in {j \in Rids(st) : st.nodes[j].content # 0}}
Held(st) == {<<st.nodes[i].uuid, st.nodes[i].content>> :
               i \in {j \in Rids(st) : st.nodes[j].content # 0}}
Phantoms(st) == {i \in Rids(st) : st.nodes[i].content = 0}

\* ----------------------------------------------------------------- Xfer
\* struct Xfer plus the two TEMP tables of the connection: temp tells whether
\* peerhave and peerneed exist (between CREATE TEMP TABLE and DROP TABLE)
NewXfer(mxSend, syncPrivate, remoteVersion) ==
  [out |-> <<>>, err |-> <<>>, temp |-> FALSE, peerhave |-> {}, peerneed |-> {},
   mxSend |-> mxSend, resync |-> 0, remoteVersion |-> remoteVersion,
   remoteDate |-> 0, syncPrivate |-> syncPrivate, nextIsPrivate |-> FALSE,
   nFileSent |-> 0, nFileRcvd |-> 0, nPrivIGot |-> 0, nINeedSent |-> 0]

\* CREATE TEMP TABLE peerhave(...); CREATE TEMP TABLE peerneed(...)
create_temp(x) == [x EXCEPT !.temp = TRUE]
drop_temp_skipped(x) == x
\* DROP TABLE peerhave; DROP TABLE peerneed
drop_temp(x) == [x EXCEPT !.temp = FALSE, !.peerhave = {}, !.peerneed = {}]
\* the names in the have, file and cfile cards of a message, card by card
CardNames(msg) ==
  SelectSeq(msg, LAMBDA c : c.kw \in {"have", "file", "cfile"})
SentIn(msg) ==
  {<<CardNames(msg)[i].kw, CardNames(msg)[i].h>> : i \in 1..Len(CardNames(msg))}

\* INSERT OR IGNORE INTO peerhave VALUES(:n)
peer_have(x, nid) == IF nid # 0 THEN [x EXCEPT !.peerhave = @ \cup {nid}] ELSE x

send_node_leaky(x, st, rid, pUuid, late) ==
  LET isPriv == content_is_private(st, rid)
      uuid == IF rid \in Rids(st) /\ st.nodes[rid].content # 0
                THEN st.nodes[rid].uuid ELSE 0
      name == IF pUuid # 0 THEN pUuid ELSE uuid
  IN IF rid \in x.peerhave \/ uuid = 0 \/ (pUuid # 0 /\ pUuid # uuid)
          \/ uuid_is_shunned(st, name)
       THEN x
     ELSE peer_have([x EXCEPT !.out = (IF isPriv THEN Append(@, PrivateCard) ELSE @)
                                        \o <<FileCard(name, st.nodes[rid].content)>>,
                              !.nFileSent = @ + 1], rid)

send_node_unbounded(x, st, rid, pUuid, late) ==
  LET isPriv == content_is_private(st, rid)
      uuid == IF rid \in Rids(st) /\ st.nodes[rid].content # 0
                THEN st.nodes[rid].uuid ELSE 0
      name == IF pUuid # 0 THEN pUuid ELSE uuid
  IN IF (isPriv /\ ~x.syncPrivate) \/ rid \in x.peerhave \/ uuid = 0
          \/ (pUuid # 0 /\ pUuid # uuid) \/ uuid_is_shunned(st, name)
       THEN x
     ELSE peer_have([x EXCEPT !.out = (IF isPriv THEN Append(@, PrivateCard) ELSE @)
                                        \o <<FileCard(name, st.nodes[rid].content)>>,
                              !.nFileSent = @ + 1], rid)

send_node_unmarked(x, st, rid, pUuid, late) ==
  LET isPriv == content_is_private(st, rid)
      uuid == IF rid \in Rids(st) /\ st.nodes[rid].content # 0
                THEN st.nodes[rid].uuid ELSE 0
      name == IF pUuid # 0 THEN pUuid ELSE uuid
  IN IF (isPriv /\ ~x.syncPrivate) \/ rid \in x.peerhave \/ uuid = 0
          \/ (pUuid # 0 /\ pUuid # uuid) \/ uuid_is_shunned(st, name)
       THEN x
     ELSE IF late \/ x.mxSend <= OutSize(x.out)
       THEN [x EXCEPT !.out = Append(@, HaveCard(name, IF isPriv THEN 1 ELSE 0))]
     ELSE peer_have([x EXCEPT !.out = Append(@, FileCard(name, st.nodes[rid].content)),
                              !.nFileSent = @ + 1], rid)

send_node_resends(x, st, rid, pUuid, late) ==
  LET isPriv == content_is_private(st, rid)
      uuid == IF rid \in Rids(st) /\ st.nodes[rid].content # 0
                THEN st.nodes[rid].uuid ELSE 0
      name == IF pUuid # 0 THEN pUuid ELSE uuid
  IN IF isPriv /\ ~x.syncPrivate
       THEN IF x.remoteDate >= RecentDate /\ pUuid # 0
              THEN [x EXCEPT !.out = Append(@, HaveCard(pUuid, 1)),
                             !.nPrivIGot = @ + 1]
              ELSE x
     ELSE IF uuid = 0 \/ (pUuid # 0 /\ pUuid # uuid) \/ uuid_is_shunned(st, name) THEN x
     ELSE IF late \/ x.mxSend <= OutSize(x.out)
       THEN [x EXCEPT !.out = Append(@, HaveCard(name, IF isPriv THEN 1 ELSE 0))]
     ELSE peer_have([x EXCEPT !.out = (IF isPriv THEN Append(@, PrivateCard) ELSE @)
                                        \o <<FileCard(name, st.nodes[rid].content)>>,
                              !.nFileSent = @ + 1], rid)

\* send_node(pXfer, rid, pUuid, nativeDelta); pUuid = 0 stands for NULL and
\* late for time(NULL) >= maxTime
send_node(x, st, rid, pUuid, late) ==
  LET isPriv == content_is_private(st, rid)
      uuid == IF rid \in Rids(st) /\ st.nodes[rid].content # 0
                THEN st.nodes[rid].uuid ELSE 0
      name == IF pUuid # 0 THEN pUuid ELSE uuid
  IN IF isPriv /\ ~x.syncPrivate
       THEN IF x.remoteDate >= RecentDate /\ pUuid # 0
              THEN [x EXCEPT !.out = Append(@, HaveCard(pUuid, 1)),
                             !.nPrivIGot = @ + 1]
              ELSE x
     ELSE IF rid \in x.peerhave THEN x
     ELSE IF uuid = 0 THEN x
     ELSE IF pUuid # 0 /\ pUuid # uuid THEN x
     ELSE IF uuid_is_shunned(st, name) THEN x
     ELSE IF late \/ x.mxSend <= OutSize(x.out)
       THEN [x EXCEPT !.out = Append(@, HaveCard(name, IF isPriv THEN 1 ELSE 0))]
     ELSE peer_have([x EXCEPT !.out = (IF isPriv THEN Append(@, PrivateCard) ELSE @)
                                        \o <<FileCard(name, st.nodes[rid].content)>>,
                              !.nFileSent = @ + 1], rid)

\* request_partials: an ineed card for every partial node not in peerneed
request_partials(x, st, maxReq) ==
  LET p == SelectSeq(RidSeq(st),
             LAMBDA i : st.nodes[i].content = 0 /\ st.nodes[i].uuid \notin x.peerneed)
      k == Min(maxReq, Len(p))
  IN [x EXCEPT !.out = @ \o [j \in 1..k |-> INeedCard(st.nodes[p[j]].uuid, 0)],
               !.nINeedSent = @ + k]

\* create_list_node: with ListThreshold or more root entries the list text is
\* built and dropped (content_put is commented out) and the closing
\* DELETE FROM root WHERE nid NOT IN (0) empties the root table
create_list_node(st) ==
  IF Cardinality(st.root) >= ListThreshold THEN [st EXCEPT !.root = {}] ELSE st

RECURSIVE SendRootLoop(_, _, _)
RECURSIVE SendRootLoop_unguarded(_, _, _)
SendRootLoop_unguarded(x, st, rows) ==
  IF rows = <<>> THEN x
  ELSE IF Len(rows) = 1
    THEN LET y == [x EXCEPT !.out = Append(@, HaveCard(st.nodes[Head(rows)].uuid, 0))]
         IN IF y.mxSend < OutSize(y.out)
              THEN [y EXCEPT !.resync = Head(rows) - 1] ELSE y
  ELSE LET h == Len(rows) \div 2
           first == SendRootLoop_unguarded(x, st, SubSeq(rows, 1, h))
       IN IF first.out = <<>> THEN first
          ELSE SendRootLoop_unguarded(first, st, SubSeq(rows, h + 1, Len(rows)))
\* send_root.  The rows are stepped through in order, the first half and
\* then the second; the test of first.out, never empty after a have card,
\* has the first half evaluated before the second is entered.  peerhave holds the nids peer_have put there, and the query
\* excludes the nodes whose uuid is found in it.
SendRootLoop(x, st, rows) ==
  IF rows = <<>> THEN x
  ELSE IF Len(rows) = 1
    THEN LET y == [x EXCEPT !.out = Append(@, HaveCard(st.nodes[Head(rows)].uuid, 0))]
         IN IF y.resync # 0 /\ y.mxSend < OutSize(y.out)
              THEN [y EXCEPT !.resync = Head(rows) - 1] ELSE y
  ELSE LET h == Len(rows) \div 2
           first == SendRootLoop(x, st, SubSeq(rows, 1, h))
       IN IF first.out = <<>> THEN first
          ELSE SendRootLoop(first, st, SubSeq(rows, h + 1, Len(rows)))
Descending(s) == [i \in 1..Len(s) |-> s[Len(s) + 1 - i]]
send_root_rows(x, st) ==
  IF x.resync # 0
    THEN Descending(SelectSeq(RidSeq(st),
           LAMBDA i : i <= x.resync /\ st.nodes[i].uuid \notin x.peerhave))
    ELSE SelectSeq(RidSeq(st),
           LAMBDA i : i \in st.root /\ st.nodes[i].uuid \notin x.peerhave)
send_root(x, st) ==
  LET rows == send_root_rows(x, st)
      y == SendRootLoop(x, st, rows)
  IN IF rows = <<>> THEN [y EXCEPT !.resync = 0] ELSE y
\* send_all: a have card for every row of node
send_all(x, st) ==
  [x EXCEPT !.out = @ \o [i \in 1..Len(st.nodes) |-> HaveCard(st.nodes[i].uuid, 0)]]
\* send_private: igot H 1 for every private artifact, when syncing private
send_private(x, st) ==
  IF x.syncPrivate
    THEN LET p == SelectSeq(RidSeq(st), LAMBDA i : st.nodes[i].priv)
         IN [x EXCEPT !.out = @ \o [j \in 1..Len(p) |-> IGotCard(st.nodes[p[j]].uuid, 1)]]
    ELSE x

\* ------------------------------------------------------- configuration
\* project-code of the repository, and another project's code
ProjectCode == HashOf(MaxContent + 1)
OtherProjectCode == HashOf(MaxContent + 2)
Caps == {"Read", "Write", "Clone", "Private"}
\* the rows of the user table: pw, whether pw is a 40-character shared
\* secret (szPw==40) or cleartext, and the capabilities
UserLogins == {"alice", "bob", "developer"}
ReservedLogins == {"anonymous", "nobody", "developer", "reader"}
\* the cleartext password the person types
Password(login) == CASE login = "alice" -> 5 [] login = "bob" -> 3 [] OTHER -> 6
UserRow(login) ==
  CASE login = "alice" ->
         [pw |-> sha1_shared_secret(Password("alice"), "alice"), hashed |-> TRUE,
          cap |-> {"Read", "Write", "Clone"}]
    [] login = "bob" ->
         [pw |-> Password("bob"), hashed |-> FALSE, cap |-> {"Read", "Write"}]
    [] OTHER ->
         [pw |-> sha1_shared_secret(Password(login), login), hashed |-> TRUE,
          cap |-> {"Read", "Write", "Clone", "Private"}]

VARIABLES
  peer,     \* who talks to whom: "sync" = client_sync with page_xfer,
            \* "srv" = page_xfer serving a foreign client,
            \* "cli" = client_sync talking to a foreign server
  conf,     \* configuration: anonCaps (capabilities of nobody/anonymous on
            \* the server), user (the login the client syncs as), flags (the
            \* syncFlags of the run), A and B (the artifacts held by client
            \* and server when the run starts), maxCycle and maxReply (the
            \* bounds of the run on round trips and on foreign reply cards)
  sstore,   \* the server's repository
  srv,      \* page_xfer: its locals, g.perm, the unread request; everLate
            \* records that some request of the run reached its deadline,
            \* sent the have/file/cfile cards of the replies sent so far
  sx,       \* page_xfer's Xfer; temp tells whether the temp tables
            \* peerhave and peerneed exist
  cstore,   \* the client's repository
  cli,      \* client_sync: its locals; txn is the state of the cycle's
            \* transaction, before the repository when the cycle began,
            \* sent the have/file/cfile cards of the requests sent so far,
            \* nFileRecv the files received in the cycle before, seqnoRcvd
            \* the N of the last clone_seqno card read from the reply (-1
            \* when the reply had none so far), nAuthErr the "not
            \* authorized to write" error cards counted under SYNC_IFABLE,
            \* nBegin and nEnd the calls of db_begin_transaction and
            \* db_end_transaction so far, nDrop the times the temp tables
            \* were dropped
  cx,       \* client_sync's Xfer; temp as in sx
  net       \* the HTTP exchange in flight
vars == <<peer, conf, sstore, srv, sx, cstore, cli, cx, net>>

\* ------------------------------------------------------- authentication
\* check_tail_hash: non-zero when NONCE is not the hash of the rest of the
\* request
check_tail_hash_off(nonce, tail) == FALSE
check_tail_hash(nonce, tail) == MsgHash(tail) # nonce

\* login_set_capabilities(zCap, 0): the capabilities of the row are switched
\* on in g.perm; none is switched off
login_set_capabilities(perm, cap) == perm \cup cap

check_login_replaces(perm, login, nonce, sig) ==
  IF login \in {"nobody", "anonymous"} THEN [rc |-> 0, perm |-> perm, login |-> ""]
  ELSE IF login \in UserLogins /\ login \notin ReservedLogins
            /\ sig \in {SigOf(nonce, UserRow(login).pw),
                        SigOf(nonce, sha1_shared_secret(Password(login), login))}
    THEN [rc |-> 0, perm |-> UserRow(login).cap, login |-> login]
  ELSE [rc |-> 1, perm |-> perm, login |-> ""]

check_login_grants(perm, login, nonce, sig) ==
  IF login \in {"nobody", "anonymous"} THEN [rc |-> 0, perm |-> perm, login |-> ""]
  ELSE IF login \in UserLogins /\ login \notin ReservedLogins
    THEN [rc |-> IF sig \in {SigOf(nonce, UserRow(login).pw),
                             SigOf(nonce, sha1_shared_secret(Password(login), login))}
                   THEN 0 ELSE 1,
          perm |-> login_set_capabilities(perm, UserRow(login).cap), login |-> login]
  ELSE [rc |-> -1, perm |-> perm, login |-> ""]

\* check_login: [rc, perm]; rc = 0 on success.  remote_user_ok is off.
check_login(perm, login, nonce, sig) ==
  IF login \in {"nobody", "anonymous"} THEN [rc |-> 0, perm |-> perm, login |-> ""]
  ELSE IF login \in UserLogins /\ login \notin ReservedLogins /\ UserRow(login).pw > 0
    THEN LET row == UserRow(login)
             rc1 == IF SigOf(nonce, row.pw) = sig THEN 0 ELSE 1
             rc == IF rc1 # 0 /\ ~row.hashed
                     THEN (IF SigOf(nonce, sha1_shared_secret(row.pw, login)) = sig
                             THEN 0 ELSE 1)
                     ELSE rc1
         IN IF rc = 0
              THEN [rc |-> 0, perm |-> login_set_capabilities(perm, row.cap),
                    login |-> login]
            ELSE [rc |-> rc, perm |-> perm, login |-> ""]
  ELSE [rc |-> -1, perm |-> perm, login |-> ""]

\* ------------------------------------------------------ receive engine
\* xfer_accept_atom_node(pXfer, cloneFlag).  isPriv is the value the
\* uninitialized local happens to hold.  The payload of a line that passes
\* the checks is the (eoffset-boffset) bytes card.pay.
\* (a SIZE, BOFFSET or EOFFSET token that is not an integer is a negative
\* field of the card)
AtomMalformed_lax(card) ==
  \/ card.n # 5
  \/ ~blob_is_hname(card.h)
  \/ card.a < 0 \/ card.b < 0 \/ card.c < 0
AtomMalformed(card) ==
  \/ card.n # 5
  \/ ~blob_is_hname(card.h)
  \/ card.a < 0 \/ card.b < 0 \/ card.c < 0
  \/ card.c > card.a
\* the number of bytes xfer_accept_atom_node takes from the input after the
\* line: blob_extract(pXfer->pIn, (eoffset-boffset), &content)
AtomExtracted(card) == IF AtomMalformed(card) THEN 0 ELSE card.c - card.b
xfer_accept_atom_node(x, st, card, cloneFlag, isPriv) ==
  IF AtomMalformed(card)
    THEN [x |-> [x EXCEPT !.err = Append(@, "malformed atom line")], st |-> st]
  ELSE
    LET content == card.pay
        e1 == IF card.b = 0 /\ card.c = card.a /\ ~hname_verify_hash(content, card.h)
                THEN <<"wrong hash on received atom">> ELSE <<>>
        put == content_put_ex(st, content, card.h, isPriv)
    IN IF cloneFlag
         THEN [x |-> peer_have([x EXCEPT !.err = @ \o e1, !.nFileRcvd = @ + 1], put.rid),
               st |-> put.st]
         ELSE
           LET e2 == IF ~hname_verify_hash(content, card.h)
                       THEN <<"wrong hash on received artifact">> ELSE <<>>
           IN [x |-> peer_have([x EXCEPT !.err = @ \o e1 \o e2, !.nFileRcvd = @ + 1],
                               put.rid),
               st |-> IF isPriv THEN put.st ELSE content_make_public(put.st, put.rid)]

\* xfer_accept_list_node: the list node is verified against its name and
\* stored; a payload that does not hash to the name is an error
xfer_accept_list_node(x, st, card) ==
  IF card.n # 3 \/ ~blob_is_hname(card.h)
    THEN [x |-> [x EXCEPT !.err = Append(@, "malformed list line")], st |-> st]
  ELSE IF ~hname_verify_hash(card.pay, card.h)
    THEN [x |-> [x EXCEPT !.err = Append(@, "wrong hash on received artifact")],
          st |-> st]
  ELSE LET put == content_put_ex(st, card.pay, card.h, FALSE)
       IN [x |-> peer_have(x, put.rid), st |-> put.st]

\* remote_unk: the peer asked for this name
remote_unk(x, h) == [x EXCEPT !.peerneed = @ \cup {h}]

\* send_compressed_file(pXfer, rid): the artifact as a cfile card, unless it
\* is a phantom, shunned, or private while private content is not synced
send_compressed_file(x, st, rid) ==
  IF rid \notin Rids(st) THEN x
  ELSE IF st.nodes[rid].content = 0 \/ uuid_is_shunned(st, st.nodes[rid].uuid) THEN x
  ELSE IF st.nodes[rid].priv /\ ~x.syncPrivate THEN x
  ELSE [x EXCEPT !.out = (IF st.nodes[rid].priv THEN Append(@, PrivateCard) ELSE @)
                           \o <<CFileCard(st.nodes[rid].uuid, st.nodes[rid].content)>>]

\* ------------------------------------------------- foreign client input
\* The cards a foreign client may put in a request.  A request is read as
\* it is composed, one card at a time; a login card fixes the rest of the
\* request (its NONCE is a hash of it), taken from ForeignTails.
ForeignReqCards ==
  {PragmaCard("client-version", 0, 0),
   PullCard(ProjectCode), PullCard(OtherProjectCode), PushCard(ProjectCode),
   PushCard(OtherProjectCode), CloneAllCard, CloneCard(CloneVersion, 1), CloneCard(CloneVersion - 1, 1),
   AtomCard(HashOf(MaxContent), 1, 0, 1, 1),
   AtomCard(HashOf(1), 1, 0, 2, 1),
   ListCard(HashOf(1), 1)}
  \cup {NeedCard(h) : h \in Names}
  \cup {HaveCard(h, 0) : h \in Names}
  \cup {AtomCard(HashOf(c), SizeOf(c), 0, SizeOf(c), c) : c \in Contents}
TailCards ==
  {PullCard(ProjectCode), PushCard(ProjectCode), NeedCard(HashOf(1)),
   AtomCard(HashOf(MaxContent), SizeOf(MaxContent), 0, SizeOf(MaxContent), MaxContent)}
ForeignTails ==
  [k \in 0..MaxCards |-> UNION {[1..n -> TailCards] : n \in 0..k}]
ForeignLogins(tail) ==
  LET n == MsgHash(tail)
  IN {LoginCard("alice", n, SigOf(n, UserRow("alice").pw)),
      LoginCard("alice", n, SigOf(n, UserRow("alice").pw) + 1),
      LoginCard("alice", n + 1, SigOf(n + 1, UserRow("alice").pw)),
      LoginCard("bob", n, SigOf(n, sha1_shared_secret(Password("bob"), "bob"))),
      LoginCard("bob", n, SigOf(n, Password("bob"))),
      LoginCard("bob", n, SigOf(n, Password("bob")) + 1),
      LoginCard("anonymous", n, 0),
      LoginCard("developer", n, SigOf(n, UserRow("developer").pw)),
      LoginCard("mallory", n, SigOf(n, UserRow("mallory").pw))}

\* a second login card in the rest of a request, with a NONCE of its own
SecondLogins(tail) ==
  LET n == MsgHash(tail)
  IN {LoginCard("alice", n, SigOf(n, UserRow("alice").pw)),
      LoginCard("alice", n, SigOf(n, UserRow("alice").pw) + 1),
      LoginCard("bob", n, SigOf(n, Password("bob")))}
LoginTails ==
  [k \in 0..MaxCards |->
     ForeignTails[k]
       \cup (IF k = 0 THEN {}
             ELSE UNION {{<<c>> \o t : c \in SecondLogins(t)} : t \in ForeignTails[k - 1]})]

\* ------------------------------------------------------------ page_xfer
\* which branch of the if-else chain of page_xfer a line takes
SrvKind(card) ==
  IF card.kw = "#" \/ card.kw = "" THEN "skip"
  ELSE IF card.kw = "atom" THEN "atom"
  ELSE IF card.kw = "list" THEN "list"
  ELSE IF card.kw = "need" /\ card.n = 2 /\ blob_is_hname(card.h) THEN "need"
  ELSE IF card.n = 2 /\ card.kw = "have" /\ blob_is_hname(card.h) THEN "have"
  ELSE IF card.n = 3 /\ card.kw \in {"pull", "push"} /\ blob_is_hname(card.h) THEN "auth"
  ELSE IF card.kw = "clone" THEN "clone"
  ELSE IF card.kw = "login" /\ card.n = 4 THEN "login"
  ELSE "unknown"

\* the next line of the request: blob_line(xfer.pIn, &xfer.line)
SrvNextCards ==
  IF srv.pc # "loop" THEN {}
  ELSE IF srv.in # <<>> THEN {Head(srv.in)}
  ELSE IF srv.open /\ srv.nRead < MaxCards THEN ForeignReqCards
  ELSE {}
SrvRead(card) ==
  [srv EXCEPT !.in = IF @ # <<>> THEN Tail(@) ELSE @, !.nRead = @ + 1, !.line = card]
\* cgi_reset_content(); @ error ...
SrvErrorOut(x, msg) == [x EXCEPT !.out = <<ErrorCard(msg)>>]
\* cgi_reset_content(); @ error MSG; nErr++; break;
SrvFail(card, x, msg) ==
  /\ sx' = SrvErrorOut(x, msg)
  /\ srv' = [SrvRead(card) EXCEPT !.nErr = @ + 1, !.pc = "post"]

ServerBegin ==
  /\ \/ peer = "srv" /\ srv.pc = "idle"
     \/ peer = "sync" /\ srv.pc \in {"idle", "done"} /\ net.st = "req"
  /\ srv' = [pc |-> "loop", in |-> IF peer = "sync" THEN net.req ELSE <<>>,
             open |-> (peer = "srv"), nRead |-> 0, line |-> NoCard,
             isPull |-> FALSE, isPush |-> FALSE, isClone |-> FALSE,
             deltaFlag |-> FALSE, nIneed |-> 0, nErr |-> 0,
             perm |-> conf.anonCaps, login |-> "anonymous", late |-> FALSE,
             everLate |-> srv.everLate, sent |-> srv.sent,
             txn |-> "open", before |-> sstore]
  /\ sx' = create_temp(NewXfer(SrvMxSend, FALSE, 0))
  /\ net' = IF peer = "sync" THEN [net EXCEPT !.st = "serving"] ELSE net
  /\ UNCHANGED <<peer, conf, sstore, cstore, cli, cx>>

\* time(NULL) reaches xfer.maxTime while the request is being served
SrvDeadline ==
  /\ srv.pc = "loop"
  /\ ~srv.late
  /\ srv' = [srv EXCEPT !.late = TRUE, !.everLate = TRUE]
  /\ UNCHANGED <<peer, conf, sstore, sx, cstore, cli, cx, net>>

\* a comment or an empty line: continue
SrvSkip ==
  /\ \E card \in SrvNextCards :
       /\ SrvKind(card) = "skip"
       /\ srv' = SrvRead(card)
  /\ UNCHANGED <<peer, conf, sstore, sx, cstore, cli, cx, net>>

SrvAtom_unguarded ==
  /\ \E card \in SrvNextCards :
       /\ SrvKind(card) = "atom"
       /\ \E isPriv \in BOOLEAN :
            LET r == xfer_accept_atom_node(sx, sstore, card, FALSE, isPriv)
            IN /\ sstore' = r.st
               /\ IF r.x.err # <<>>
                    THEN SrvFail(card, r.x, r.x.err[1])
                    ELSE sx' = r.x /\ srv' = SrvRead(card)
  /\ UNCHANGED <<peer, conf, cstore, cli, cx, net>>
\* atom HASH SIZE BOFFSET EOFFSET \n CONTENT
SrvAtom ==
  /\ \E card \in SrvNextCards :
       /\ SrvKind(card) = "atom"
       /\ IF ~srv.isPush
            THEN SrvFail(card, sx, "not authorized to write") /\ sstore' = sstore
            ELSE \E isPriv \in BOOLEAN :
                   LET r == xfer_accept_atom_node(sx, sstore, card, FALSE, isPriv)
                   IN /\ sstore' = r.st
                      /\ IF r.x.err # <<>>
                           THEN SrvFail(card, r.x, r.x.err[1])
                           ELSE sx' = r.x /\ srv' = SrvRead(card)
  /\ UNCHANGED <<peer, conf, cstore, cli, cx, net>>

\* list HASH CSIZE \n CONTENT
SrvList ==
  /\ \E card \in SrvNextCards :
       /\ SrvKind(card) = "list"
       /\ IF ~srv.isPush
            THEN SrvFail(card, sx, "not authorized to write") /\ sstore' = sstore
            ELSE LET r == xfer_accept_list_node(sx, sstore, card)
                 IN /\ sstore' = r.st
                    /\ IF r.x.err # <<>>
                         THEN SrvFail(card, r.x, r.x.err[1])
                         ELSE sx' = r.x /\ srv' = SrvRead(card)
  /\ UNCHANGED <<peer, conf, cstore, cli, cx, net>>

SrvNeed_ungated ==
  /\ \E card \in SrvNextCards :
       /\ SrvKind(card) = "need"
       /\ srv' = [SrvRead(card) EXCEPT !.nIneed = @ + 1]
       /\ LET x == remote_unk(sx, card.h)
              rid == nid_from_uuid(sstore, card.h, FALSE, FALSE).rid
          IN sx' = IF rid # 0 THEN send_node(x, sstore, rid, card.h, srv.late) ELSE x
  /\ UNCHANGED <<peer, conf, sstore, cstore, cli, cx, net>>
\* need HASH
SrvNeed ==
  /\ \E card \in SrvNextCards :
       /\ SrvKind(card) = "need"
       /\ srv' = [SrvRead(card) EXCEPT !.nIneed = @ + 1]
       /\ LET x == remote_unk(sx, card.h)
              rid == nid_from_uuid(sstore, card.h, FALSE, FALSE).rid
          IN sx' = IF srv.isPull /\ rid # 0
                     THEN send_node(x, sstore, rid, card.h, srv.late)
                     ELSE x
  /\ UNCHANGED <<peer, conf, sstore, cstore, cli, cx, net>>

\* have HASH
SrvHave ==
  /\ \E card \in SrvNextCards :
       /\ SrvKind(card) = "have"
       /\ srv' = SrvRead(card)
       /\ IF srv.isPush
            THEN LET r == nid_from_uuid(sstore, card.h, TRUE, FALSE)
                 IN sstore' = r.st /\ sx' = peer_have(sx, r.rid)
            ELSE sstore' = sstore /\ sx' = sx
  /\ UNCHANGED <<peer, conf, cstore, cli, cx, net>>

SrvPullPush_grants ==
  /\ \E card \in SrvNextCards :
       /\ SrvKind(card) = "auth"
       /\ IF card.h # ProjectCode
            THEN SrvFail(card, sx, "wrong project")
          ELSE IF card.kw = "pull"
            THEN IF "Read" \notin srv.perm
                   THEN SrvFail(card, sx, "not authorized to read")
                   ELSE sx' = sx /\ srv' = [SrvRead(card) EXCEPT !.isPull = TRUE]
          ELSE sx' = sx /\ srv' = [SrvRead(card) EXCEPT !.isPush = TRUE]
  /\ UNCHANGED <<peer, conf, sstore, cstore, cli, cx, net>>
SrvPullPush_any_project ==
  /\ \E card \in SrvNextCards :
       /\ SrvKind(card) = "auth"
       /\ IF card.kw = "pull"
            THEN IF "Read" \notin srv.perm
                   THEN SrvFail(card, sx, "not authorized to read")
                   ELSE sx' = sx /\ srv' = [SrvRead(card) EXCEPT !.isPull = TRUE]
          ELSE IF "Write" \notin srv.perm
            THEN IF ~srv.isPull
                   THEN /\ sx' = SrvErrorOut(sx, "not authorized to write")
                        /\ srv' = [SrvRead(card) EXCEPT !.nErr = @ + 1]
                   ELSE /\ sx' = [sx EXCEPT !.out =
                                    Append(@, MessageCard("pull only - not authorized to push"))]
                        /\ srv' = SrvRead(card)
          ELSE sx' = sx /\ srv' = [SrvRead(card) EXCEPT !.isPush = TRUE]
  /\ UNCHANGED <<peer, conf, sstore, cstore, cli, cx, net>>
\* pull SERVERCODE PROJECTCODE / push SERVERCODE PROJECTCODE
SrvPullPush ==
  /\ \E card \in SrvNextCards :
       /\ SrvKind(card) = "auth"
       /\ IF card.h # ProjectCode
            THEN SrvFail(card, sx, "wrong project")
          ELSE IF card.kw = "pull"
            THEN IF "Read" \notin srv.perm
                   THEN SrvFail(card, sx, "not authorized to read")
                   ELSE sx' = sx /\ srv' = [SrvRead(card) EXCEPT !.isPull = TRUE]
          ELSE IF "Write" \notin srv.perm
            THEN IF ~srv.isPull
                   THEN /\ sx' = SrvErrorOut(sx, "not authorized to write")
                        /\ srv' = [SrvRead(card) EXCEPT !.nErr = @ + 1]
                   ELSE /\ sx' = [sx EXCEPT !.out =
                                    Append(@, MessageCard("pull only - not authorized to push"))]
                        /\ srv' = SrvRead(card)
          ELSE sx' = sx /\ srv' = [SrvRead(card) EXCEPT !.isPush = TRUE]
  /\ UNCHANGED <<peer, conf, sstore, cstore, cli, cx, net>>

\* the send loop of "clone VERSION SEQNO"
RECURSIVE CloneLoop(_, _, _, _, _, _)
CloneLoop(x, st, seqno, max, vers, late) ==
  IF x.mxSend > OutSize(x.out) /\ seqno <= max /\ ~late
    THEN CloneLoop(IF vers >= 3 THEN send_compressed_file(x, st, seqno)
                                ELSE send_node(x, st, seqno, 0, late),
                   st, seqno + 1, max, vers, late)
    ELSE [x |-> x, seqno |-> seqno]

\* clone ?PROTOCOL-VERSION? ?SEQUENCE-NUMBER?
SrvClone ==
  /\ \E card \in SrvNextCards :
       /\ SrvKind(card) = "clone"
       /\ IF "Clone" \notin srv.perm
            THEN /\ sx' = [sx EXCEPT !.out = <<PushCard(ProjectCode),
                                               ErrorCard("not authorized to clone")>>]
                 /\ srv' = [SrvRead(card) EXCEPT !.nErr = @ + 1, !.pc = "post"]
          ELSE IF card.n = 3 /\ card.a >= 2
            THEN LET max == Len(sstore.nodes)
                     r == CloneLoop(sx, sstore, card.b, max, card.a, srv.late)
                     seqno == IF r.seqno > max THEN 0 ELSE r.seqno
                 IN /\ sx' = [r.x EXCEPT !.out = @ \o <<CloneSeqnoCard(seqno),
                                                         PushCard(ProjectCode)>>]
                    /\ srv' = SrvRead(card)
          ELSE /\ sx' = [sx EXCEPT !.out = Append(@, PushCard(ProjectCode))]
               /\ srv' = [SrvRead(card) EXCEPT !.isClone = TRUE, !.isPull = TRUE,
                                               !.deltaFlag = TRUE]
  /\ UNCHANGED <<peer, conf, sstore, cstore, cli, cx, net>>

\* the login card that comes next, with the rest of the request after it
SrvLoginInputs ==
  IF srv.pc # "loop" THEN {}
  ELSE IF srv.in # <<>>
    THEN (IF SrvKind(Head(srv.in)) = "login" THEN {<<Head(srv.in), Tail(srv.in)>>} ELSE {})
  ELSE IF srv.open /\ srv.nRead < MaxCards
    THEN UNION {{<<c, tail>> : c \in ForeignLogins(tail)} :
                  tail \in LoginTails[MaxCards - srv.nRead - 1]}
  ELSE {}

\* login USER NONCE SIGNATURE
SrvLogin ==
  /\ \E inp \in SrvLoginInputs :
       LET card == inp[1]
           tail == inp[2]
           read == [srv EXCEPT !.in = tail, !.open = FALSE, !.nRead = @ + 1,
                               !.line = card]
           r == check_login(srv.perm, card.s, card.a, card.b)
       IN IF check_tail_hash(card.a, tail) \/ r.rc # 0
            THEN /\ sx' = SrvErrorOut(sx, "login failed")
                 /\ srv' = [read EXCEPT !.nErr = @ + 1, !.pc = "post"]
            ELSE /\ sx' = sx
                 /\ srv' = [read EXCEPT !.perm = r.perm,
                                        !.login = IF r.login # "" THEN r.login ELSE @]
  /\ UNCHANGED <<peer, conf, sstore, cstore, cli, cx, net>>

\* Unknown message
SrvUnknown ==
  /\ \E card \in SrvNextCards :
       /\ SrvKind(card) = "unknown"
       /\ sx' = SrvErrorOut(sx, "bad command")
       /\ srv' = SrvRead(card)
  /\ UNCHANGED <<peer, conf, sstore, cstore, cli, cx, net>>

\* after the loop: the closing cards, the timestamp and the commit
ServerEnd ==
  /\ \/ srv.pc = "post"
     \/ srv.pc = "loop" /\ srv.in = <<>>
  /\ LET x1 == IF srv.isPush THEN request_partials(sx, sstore, SrvPartialReq) ELSE sx
         st2 == IF ~(srv.isClone /\ srv.nIneed = 0) /\ srv.isPull
                  THEN create_list_node(sstore) ELSE sstore
         x2 == IF srv.isClone /\ srv.nIneed = 0
                 THEN send_private(send_all(x1, sstore), sstore)
               ELSE IF srv.isPull
                 THEN send_private(send_root(x1, st2), st2)
               ELSE x1
         x3 == [drop_temp(x2) EXCEPT
                  !.out = Append(@, CommentCard("timestamp", srv.nErr))]
     IN /\ sx' = x3
        /\ sstore' = st2
        /\ srv' = [srv EXCEPT !.pc = "done", !.txn = "committed", !.open = FALSE,
                              !.sent = @ \cup SentIn(x3.out)]
        /\ net' = IF peer = "sync" THEN [net EXCEPT !.st = "reply", !.reply = x3.out]
                  ELSE net
  /\ UNCHANGED <<peer, conf, cstore, cli, cx>>

\* ------------------------------------------------- receive engine, client
\* xfer_accept_file(pXfer, cloneFlag, 0, 0): the payload is verified against
\* HASH; on a mismatch an error is recorded and nothing is stored; otherwise
\* the content is stored, published unless announced private, and the name
\* marked in peerhave
xfer_accept_file(x, st, card, cloneFlag) ==
  LET isPriv == x.nextIsPrivate
      y == [x EXCEPT !.nextIsPrivate = FALSE]
  IN IF card.n # 3 \/ ~blob_is_hname(card.h) \/ card.a < 0
       THEN [x |-> [y EXCEPT !.err = Append(@, "malformed file line")], st |-> st]
     ELSE IF ~hname_verify_hash(card.pay, card.h)
       THEN [x |-> [y EXCEPT !.err = Append(@, "wrong hash on received artifact")],
             st |-> st]
     ELSE LET put == content_put_ex(st, card.pay, card.h, isPriv)
          IN [x |-> peer_have([y EXCEPT !.nFileRcvd = @ + 1], put.rid),
              st |-> IF isPriv THEN put.st ELSE content_make_public(put.st, put.rid)]
\* xfer_accept_compressed_file: uncompress the payload and accept it as a file
xfer_accept_compressed_file(x, st, card) ==
  IF card.n # 4 \/ ~blob_is_hname(card.h) \/ card.a < 0 \/ card.b < 0
    THEN [x |-> [x EXCEPT !.err = Append(@, "malformed cfile line"),
                          !.nextIsPrivate = FALSE], st |-> st]
    ELSE xfer_accept_file(x, st, FileCard(card.h, card.pay), FALSE)

\* http_exchange with HTTP_USE_LOGIN: the login card put in front of the
\* payload; none for the users nobody and anonymous
http_login(user, useLogin, send) ==
  IF useLogin /\ user \notin {"nobody", "anonymous"}
    THEN <<LoginCard(user, MsgHash(send),
                     SigOf(MsgHash(send), sha1_shared_secret(Password(user), user)))>>
    ELSE <<>>

\* ------------------------------------------------- foreign server output
ForeignReplyCards ==
  {Card("pragma", 5, 0, 22500, RecentDate, 0, 0, "server-version"),
   Card("pragma", 5, 0, 20000, RecentDate - 1, 0, 0, "server-version"),
   PrivateCard, PushCard(ProjectCode), CloneSeqnoCard(0), CloneSeqnoCard(2),
   MessageCard("pull only - not authorized to push"),
   ErrorCard("not authorized to write"), ErrorCard("bad command"),
   HaveCard(HashOf(1), 0), Card("<html>", 1, 0, 0, 0, 0, 0, ""),
   CommentCard("timestamp", 0),
   FileCard(HashOf(1), MaxContent), CFileCard(HashOf(MaxContent), MaxContent)}
  \cup {GimmeCard(h) : h \in Names}
  \cup {IGotCard(h, p) : h \in Names, p \in {0, 1}}
  \cup {FileCard(HashOf(c), c) : c \in Contents}

\* ---------------------------------------------------------- client_sync
SyncFlags == {"PUSH", "PULL", "CLONE", "PRIVATE", "IFABLE", "RESYNC"}
\* pragma client-version, then the pull and push cards: the start of a
\* message
ClientPrefix(flags, pcode) ==
  <<PragmaCard("client-version", 0, 0)>>
  \o (IF "PRIVATE" \in flags THEN <<PragmaCard("send-private", 0, 0)>> ELSE <<>>)
  \o (IF "PULL" \in flags THEN <<PullCard(pcode)>> ELSE <<>>)
  \o (IF "PUSH" \in flags THEN <<PushCard(pcode)>> ELSE <<>>)

\* client_sync up to the loop: the first message begins with a clone, pull
\* or push card
ClientStart ==
  /\ cli.pc = "idle"
  /\ peer \in {"sync", "cli"}
  /\ LET flags == IF "CLONE" \in conf.flags THEN conf.flags \ {"PUSH", "PULL"}
                  ELSE conf.flags
         x == NewXfer(CliMxSend, "PRIVATE" \in conf.flags, 0)
         first == (IF "PRIVATE" \in conf.flags
                     THEN <<PragmaCard("send-private", 0, 0)>> ELSE <<>>)
                  \o <<PragmaCard("client-version", 0, 0)>>
                  \o (IF "CLONE" \in conf.flags THEN <<CloneCard(CloneVersion, 1)>>
                      ELSE IF "PULL" \in conf.flags
                        THEN <<PullCard(cli.pcode)>>
                             \o (IF "RESYNC" \in conf.flags
                                   THEN <<PragmaCard("send-catalog", 0, 0)>> ELSE <<>>)
                      ELSE <<>>)
                  \o (IF "PUSH" \in flags THEN <<PushCard(cli.pcode)>> ELSE <<>>)
     IN /\ cx' = [x EXCEPT !.out = first,
                           !.resync = IF {"PUSH", "RESYNC"} \subseteq flags
                                        THEN ResyncAll ELSE @]
        /\ cli' = [cli EXCEPT !.pc = "top", !.flags = flags, !.go = 1]
  /\ UNCHANGED <<peer, conf, sstore, srv, sx, cstore, net>>

\* the top of the loop down to the call of http_exchange
ClientSend ==
  /\ cli.pc = "top"
  /\ cli.nCycle < conf.maxCycle
  /\ LET x0 == create_temp(cx)
         x1 == IF "PULL" \in cli.flags \/ ("CLONE" \in cli.flags /\ cli.cloneSeqno = 1)
                 THEN request_partials(x0, cstore, cli.mxPhantomReq) ELSE x0
         x2 == IF "PUSH" \in cli.flags THEN send_private(send_root(x1, cstore), cstore)
               ELSE x1
         x3 == [x2 EXCEPT !.out = Append(@, CommentCard("randomness", cli.nCycle))]
         useLogin == ~("CLONE" \in cli.flags /\ cli.nCycle = 0)
     IN /\ cx' = x3
        /\ net' = [st |-> "req", req |-> http_login(conf.user, useLogin, x3.out) \o x3.out,
                   reply |-> <<>>]
        /\ cli' = [cli EXCEPT !.pc = "wait", !.newPhantom = FALSE,
                              !.txn = "open", !.before = cstore,
                              !.nBegin = @ + 1,
                              !.sent = @ \cup SentIn(x3.out)]
  /\ UNCHANGED <<peer, conf, sstore, srv, sx, cstore>>

ClientExchangeFail_goes_on ==
  /\ cli.pc = "wait"
  /\ net.st \in {"req", "reply"}
  /\ cli' = [cli EXCEPT !.pc = "recv", !.nErr = @ + 1, !.go = 2, !.in = net.reply,
                        !.open = (peer = "cli"), !.nRead = 0, !.line = NoCard]
  /\ net' = [st |-> "idle", req |-> <<>>, reply |-> <<>>]
  /\ UNCHANGED <<peer, conf, sstore, srv, sx, cstore, cx>>
\* http_exchange returns non-zero: nErr++; go = 2; break
ClientExchangeFail ==
  /\ cli.pc = "wait"
  /\ net.st \in {"req", "reply"}
  /\ cli' = [cli EXCEPT !.pc = "finish", !.nErr = @ + 1, !.go = 2]
  /\ net' = [st |-> "idle", req |-> <<>>, reply |-> <<>>]
  /\ UNCHANGED <<peer, conf, sstore, srv, sx, cstore, cx>>

\* http_exchange returns the reply: the counters are reset and the next
\* message is begun before the reply is read
ClientRecvBegin ==
  /\ cli.pc = "wait"
  /\ \/ peer = "sync" /\ net.st = "reply"
     \/ peer = "cli" /\ net.st = "req"
  /\ cx' = [cx EXCEPT !.nFileSent = 0, !.nPrivIGot = 0,
                      !.out = ClientPrefix(cli.flags \ {"CLONE"}, cli.pcode)]
  /\ cli' = [cli EXCEPT !.pc = "recv", !.go = 0, !.nPriorArtifact = cli.nArtifactRcvd,
                        !.in = net.reply, !.open = (peer = "cli"), !.nRead = 0,
                        !.line = NoCard, !.seqnoRcvd = -1]
  /\ net' = [st |-> "idle", req |-> <<>>, reply |-> <<>>]
  /\ UNCHANGED <<peer, conf, sstore, srv, sx, cstore>>

\* which branch of the if-else chain of client_sync a reply line takes
CliKind(card, flags) ==
  IF card.kw = "#" THEN "comment"
  ELSE IF card.kw = "file" THEN "file"
  ELSE IF card.kw = "cfile" THEN "cfile"
  ELSE IF card.kw = "gimme" /\ card.n = 2 /\ blob_is_hname(card.h) THEN "gimme"
  ELSE IF card.n >= 2 /\ card.kw = "igot" /\ blob_is_hname(card.h) THEN "igot"
  ELSE IF card.kw = "push" /\ card.n = 3 /\ "CLONE" \in flags /\ blob_is_hname(card.h)
    THEN "push"
  ELSE IF card.kw = "private" THEN "private"
  ELSE IF card.kw = "clone_seqno" /\ card.n = 2 THEN "clone_seqno"
  ELSE IF card.kw = "message" /\ card.n = 2 THEN "message"
  ELSE IF card.kw = "pragma" /\ card.n >= 2 THEN "pragma"
  ELSE IF card.kw = "error" /\ card.n = 2 THEN "error"
  ELSE "unknown"

\* the next line of the reply: blob_line(&recv, &xfer.line)
CliNextCards ==
  IF cli.pc # "recv" THEN {}
  ELSE IF cli.in # <<>> THEN {Head(cli.in)}
  ELSE IF cli.open /\ cli.nRead < conf.maxReply THEN ForeignReplyCards
  ELSE {}
CliRead(card) ==
  [cli EXCEPT !.in = IF @ # <<>> THEN Tail(@) ELSE @, !.nRead = @ + 1, !.line = card]
\* the end of the loop body: if( blob_size(&xfer.err) ){ nErr++; break; }
CliAfter(c, x) ==
  IF x.err # <<>> THEN [c EXCEPT !.nErr = @ + 1, !.pc = "endcycle"] ELSE c

\* a line that begins with #: continue
CliComment ==
  /\ \E card \in CliNextCards :
       /\ CliKind(card, cli.flags) = "comment"
       /\ cli' = CliRead(card)
  /\ UNCHANGED <<peer, conf, sstore, srv, sx, cstore, cx, net>>

\* file HASH SIZE \n CONTENT
CliFile ==
  /\ \E card \in CliNextCards :
       /\ CliKind(card, cli.flags) = "file"
       /\ LET r == xfer_accept_file(cx, cstore, card, "CLONE" \in cli.flags)
          IN /\ cx' = r.x
             /\ cstore' = r.st
             /\ cli' = CliAfter([CliRead(card) EXCEPT !.nArtifactRcvd = @ + 1], r.x)
  /\ UNCHANGED <<peer, conf, sstore, srv, sx, net>>

\* cfile HASH USIZE CSIZE \n CONTENT
CliCfile ==
  /\ \E card \in CliNextCards :
       /\ CliKind(card, cli.flags) = "cfile"
       /\ LET r == xfer_accept_compressed_file(cx, cstore, card)
          IN /\ cx' = r.x
             /\ cstore' = r.st
             /\ cli' = CliAfter([CliRead(card) EXCEPT !.nArtifactRcvd = @ + 1], r.x)
  /\ UNCHANGED <<peer, conf, sstore, srv, sx, net>>

\* gimme HASH
CliGimme ==
  /\ \E card \in CliNextCards :
       /\ CliKind(card, cli.flags) = "gimme"
       /\ LET x == remote_unk(cx, card.h)
              rid == nid_from_uuid(cstore, card.h, FALSE, FALSE).rid
              y == IF "PUSH" \in cli.flags /\ rid # 0
                     THEN send_node(x, cstore, rid, card.h, FALSE) ELSE x
          IN /\ cx' = y
             /\ cli' = CliAfter(CliRead(card), y)
  /\ UNCHANGED <<peer, conf, sstore, srv, sx, cstore, net>>

CliIgot_eager ==
  /\ \E card \in CliNextCards :
       /\ CliKind(card, cli.flags) = "igot"
       /\ LET isPriv == card.n >= 3 /\ card.a = 1
              rid == nid_from_uuid(cstore, card.h, FALSE, FALSE).rid
              new == content_new(cstore, card.h, isPriv)
          IN IF rid > 0
               THEN /\ cstore' = IF isPriv THEN content_make_private(cstore, rid)
                                 ELSE content_make_public(cstore, rid)
                    /\ cx' = peer_have(cx, rid)
                    /\ cli' = CliAfter(CliRead(card), cx)
             ELSE /\ cstore' = new.st
                  /\ cx' = peer_have(cx, new.rid)
                  /\ cli' = CliAfter([CliRead(card) EXCEPT
                                        !.newPhantom = @ \/ new.rid # 0], cx)
  /\ UNCHANGED <<peer, conf, sstore, srv, sx, net>>

\* igot HASH ?PRIVATEFLAG?
CliIgot ==
  /\ \E card \in CliNextCards :
       /\ CliKind(card, cli.flags) = "igot"
       /\ LET isPriv == card.n >= 3 /\ card.a = 1
              rid == nid_from_uuid(cstore, card.h, FALSE, FALSE).rid
              new == content_new(cstore, card.h, isPriv)
          IN IF rid > 0
               THEN /\ cstore' = IF isPriv THEN content_make_private(cstore, rid)
                                 ELSE content_make_public(cstore, rid)
                    /\ cx' = peer_have(cx, rid)
                    /\ cli' = CliAfter(CliRead(card), cx)
             ELSE IF isPriv /\ "PRIVATE" \notin cli.flags
               THEN /\ cstore' = cstore
                    /\ cx' = cx
                    /\ cli' = CliAfter(CliRead(card), cx)
             ELSE IF cli.flags \cap {"PULL", "CLONE"} # {}
               THEN /\ cstore' = new.st
                    /\ cx' = peer_have(cx, new.rid)
                    /\ cli' = CliAfter([CliRead(card) EXCEPT
                                          !.newPhantom = @ \/ new.rid # 0], cx)
             ELSE /\ cstore' = cstore
                  /\ cx' = cx
                  /\ cli' = CliAfter(CliRead(card), cx)
  /\ UNCHANGED <<peer, conf, sstore, srv, sx, net>>

CliPush_silent ==
  /\ \E card \in CliNextCards :
       /\ CliKind(card, cli.flags) = "push"
       /\ cx' = cx
       /\ cli' = CliAfter([CliRead(card) EXCEPT !.pcode = IF @ = 0 THEN card.h ELSE @], cx)
  /\ UNCHANGED <<peer, conf, sstore, srv, sx, cstore, net>>

\* push SERVERCODE PRODUCTCODE, in response to a clone
CliPush ==
  /\ \E card \in CliNextCards :
       /\ CliKind(card, cli.flags) = "push"
       /\ cx' = IF cli.cloneSeqno > 0
                  THEN [cx EXCEPT !.out = Append(@, CloneCard(CloneVersion, cli.cloneSeqno))]
                  ELSE cx
       /\ cli' = CliAfter([CliRead(card) EXCEPT !.pcode = IF @ = 0 THEN card.h ELSE @], cx)
  /\ UNCHANGED <<peer, conf, sstore, srv, sx, cstore, net>>

\* private: the next file or cfile holds private content
CliPrivate ==
  /\ \E card \in CliNextCards :
       /\ CliKind(card, cli.flags) = "private"
       /\ cx' = [cx EXCEPT !.nextIsPrivate = TRUE]
       /\ cli' = CliAfter(CliRead(card), cx)
  /\ UNCHANGED <<peer, conf, sstore, srv, sx, cstore, net>>

\* clone_seqno N
CliCloneSeqno ==
  /\ \E card \in CliNextCards :
       /\ CliKind(card, cli.flags) = "clone_seqno"
       /\ cli' = CliAfter([CliRead(card) EXCEPT !.cloneSeqno = card.a,
                                                !.seqnoRcvd = card.a], cx)
  /\ UNCHANGED <<peer, conf, sstore, srv, sx, cstore, cx, net>>

CliMessage_keeps_push ==
  /\ \E card \in CliNextCards :
       /\ CliKind(card, cli.flags) = "message"
       /\ cli' = CliAfter(CliRead(card), cx)
  /\ UNCHANGED <<peer, conf, sstore, srv, sx, cstore, cx, net>>
\* message MESSAGE
CliMessage ==
  /\ \E card \in CliNextCards :
       /\ CliKind(card, cli.flags) = "message"
       /\ cli' = CliAfter([CliRead(card) EXCEPT !.flags =
                             IF card.s = "pull only - not authorized to push"
                               THEN @ \ {"PUSH"} ELSE @], cx)
  /\ UNCHANGED <<peer, conf, sstore, srv, sx, cstore, cx, net>>

\* pragma NAME VALUE...
CliPragma ==
  /\ \E card \in CliNextCards :
       /\ CliKind(card, cli.flags) = "pragma"
       /\ cx' = IF card.n >= 3 /\ card.s = "server-version"
                  THEN [cx EXCEPT !.remoteVersion = card.a,
                                  !.remoteDate = IF card.n >= 5 THEN card.b ELSE @]
                  ELSE cx
       /\ cli' = CliAfter(CliRead(card), cx)
  /\ UNCHANGED <<peer, conf, sstore, srv, sx, cstore, net>>

\* error MESSAGE
CliError ==
  /\ \E card \in CliNextCards :
       /\ CliKind(card, cli.flags) = "error"
       /\ IF "IFABLE" \in cli.flags /\ card.s = "not authorized to write"
            THEN /\ cx' = cx
                 /\ cli' = CliAfter([CliRead(card) EXCEPT !.autopushFailed = TRUE,
                                                         !.nErr = @ + 1,
                                                         !.nAuthErr = @ + 1], cx)
          ELSE IF "CLONE" \notin cli.flags \/ cli.nCycle > 0
            THEN /\ cx' = [cx EXCEPT !.err = Append(@, "server says")]
                 /\ cli' = [CliRead(card) EXCEPT !.nErr = @ + 1, !.pc = "endcycle"]
          ELSE /\ cx' = cx
               /\ cli' = CliAfter(CliRead(card), cx)
  /\ UNCHANGED <<peer, conf, sstore, srv, sx, cstore, net>>

\* Unknown message
CliUnknown ==
  /\ \E card \in CliNextCards :
       /\ CliKind(card, cli.flags) = "unknown"
       /\ IF card.n > 0 /\ card.kw = "<html>"
            THEN /\ cx' = cx
                 /\ cli' = [CliRead(card) EXCEPT !.nErr = @ + 1, !.pc = "endcycle"]
            ELSE /\ cx' = IF card.n > 0 THEN [cx EXCEPT !.err = Append(@, "unknown command")]
                          ELSE cx
                 /\ cli' = CliAfter(CliRead(card), cx')
  /\ UNCHANGED <<peer, conf, sstore, srv, sx, cstore, net>>

ClientEndCycle_one_round ==
  /\ \/ cli.pc = "endcycle"
     \/ cli.pc = "recv" /\ cli.in = <<>>
  /\ LET nCycle == cli.nCycle + 1
         nFileRecv == cx.nFileRcvd
         more == (nFileRecv > 0 \/ cli.newPhantom) /\ Phantoms(cstore) # {}
         go == IF more THEN 1
               ELSE IF cx.nFileSent > 0 THEN 1
               ELSE IF cx.nPrivIGot > 0 /\ nCycle = 1 THEN 1
               ELSE IF "CLONE" \in cli.flags
                         /\ (\/ nFileRecv > 0
                             \/ cli.cloneSeqno > 0 /\ cli.nArtifactRcvd > cli.nPriorArtifact)
                 THEN 1
               ELSE cli.go
     IN /\ cli' = [cli EXCEPT !.nCycle = nCycle, !.go = go, !.open = FALSE,
                              !.in = <<>>, !.txn = "committed",
                              !.nEnd = @ + 1, !.nDrop = @ + 1,
                              !.nFileRecv = nFileRecv,
                              !.mxPhantomReq = IF more
                                                 THEN (IF nFileRecv * 2 < MxPhantomReq
                                                         THEN MxPhantomReq
                                                         ELSE nFileRecv * 2)
                                                 ELSE @,
                              !.pc = IF go # 0 THEN "top" ELSE "finish"]
        /\ cx' = [drop_temp(cx) EXCEPT !.nFileRcvd = 0]
  /\ UNCHANGED <<peer, conf, sstore, srv, sx, cstore, net>>

ClientEndCycle_stops_early ==
  /\ \/ cli.pc = "endcycle"
     \/ cli.pc = "recv" /\ cli.in = <<>>
  /\ LET nCycle == cli.nCycle + 1
         nFileRecv == cx.nFileRcvd
         more == (nFileRecv > 0 \/ cli.newPhantom) /\ Phantoms(cstore) # {}
         go == IF more THEN 1
               ELSE IF cx.nFileSent > 0 THEN 1
               ELSE IF cx.nPrivIGot > 0 /\ nCycle = 1 THEN 1
               ELSE IF "CLONE" \in cli.flags /\ (nCycle = 1 \/ nFileRecv > 0)
                 THEN 1
               ELSE cli.go
     IN /\ cli' = [cli EXCEPT !.nCycle = nCycle, !.go = go, !.open = FALSE,
                              !.in = <<>>, !.txn = "committed",
                              !.nEnd = @ + 1, !.nDrop = @ + 1,
                              !.nFileRecv = nFileRecv,
                              !.mxPhantomReq = IF more
                                                 THEN (IF nFileRecv * 2 < MxPhantomReq
                                                         THEN MxPhantomReq
                                                         ELSE nFileRecv * 2)
                                                 ELSE @,
                              !.pc = IF go # 0 THEN "top" ELSE "finish"]
        /\ cx' = [drop_temp(cx) EXCEPT !.nFileRcvd = 0]
  /\ UNCHANGED <<peer, conf, sstore, srv, sx, cstore, net>>

\* the end of a cycle: go is computed and the transaction ended
ClientEndCycle ==
  /\ \/ cli.pc = "endcycle"
     \/ cli.pc = "recv" /\ cli.in = <<>>
  /\ LET nCycle == cli.nCycle + 1
         nFileRecv == cx.nFileRcvd
         more == (nFileRecv > 0 \/ cli.newPhantom) /\ Phantoms(cstore) # {}
         go == IF more THEN 1
               ELSE IF cx.nFileSent > 0 THEN 1
               ELSE IF cx.nPrivIGot > 0 /\ nCycle = 1 THEN 1
               ELSE IF "CLONE" \in cli.flags
                         /\ (\/ nCycle = 1
                             \/ nFileRecv > 0
                             \/ cli.cloneSeqno > 0 /\ cli.nArtifactRcvd > cli.nPriorArtifact)
                 THEN 1
               ELSE cli.go
     IN /\ cli' = [cli EXCEPT !.nCycle = nCycle, !.go = go, !.open = FALSE,
                              !.in = <<>>, !.txn = "committed",
                              !.nEnd = @ + 1, !.nDrop = @ + 1,
                              !.nFileRecv = nFileRecv,
                              !.mxPhantomReq = IF more
                                                 THEN (IF nFileRecv * 2 < MxPhantomReq
                                                         THEN MxPhantomReq
                                                         ELSE nFileRecv * 2)
                                                 ELSE @,
                              !.pc = IF go # 0 THEN "top" ELSE "finish"]
        /\ cx' = [drop_temp(cx) EXCEPT !.nFileRcvd = 0]
  /\ UNCHANGED <<peer, conf, sstore, srv, sx, cstore, net>>

\* ClientFinish without the go==2 test of its clean-up
ClientFinish_always_cleans ==
  /\ cli.pc = "finish"
  /\ cli' = [cli EXCEPT !.pc = "done",
                        !.txn = IF cli.nErr # 0 THEN "committed" ELSE @,
                        !.nEnd = IF cli.nErr # 0 THEN @ + 1 ELSE @,
                        !.nDrop = IF cli.nErr # 0 THEN @ + 1 ELSE @,
                        !.nErr = IF @ # 0 /\ cli.autopushFailed THEN @ - 1 ELSE @]
  /\ cx' = IF cli.nErr # 0 THEN drop_temp(cx) ELSE cx
  /\ UNCHANGED <<peer, conf, sstore, srv, sx, cstore, net>>

\* after the loop: when the loop was left with go = 2 the tables are dropped
\* and the transaction ended; a failed autopush is not counted; return nErr
ClientFinish ==
  /\ cli.pc = "finish"
  /\ cli' = [cli EXCEPT !.pc = "done",
                        !.txn = IF cli.nErr # 0 /\ cli.go = 2 THEN "committed" ELSE @,
                        !.nEnd = IF cli.nErr # 0 /\ cli.go = 2 THEN @ + 1 ELSE @,
                        !.nDrop = IF cli.nErr # 0 /\ cli.go = 2 THEN @ + 1 ELSE @,
                        !.nErr = IF @ # 0 /\ cli.autopushFailed THEN @ - 1 ELSE @]
  /\ cx' = IF cli.nErr # 0 /\ cli.go = 2 THEN drop_temp(cx) ELSE cx
  /\ UNCHANGED <<peer, conf, sstore, srv, sx, cstore, net>>

\* ------------------------------------------------------------ the runs
\* a repository holding the given <<content, private>> artifacts
RECURSIVE MkStore(_)
MkStore(s) ==
  IF s = <<>> THEN EmptyStore
  ELSE LET st == MkStore(SubSeq(s, 1, Len(s) - 1))
           e == s[Len(s)]
       IN content_put_ex(st, e[1], HashOf(e[1]), e[2]).st
ClientStores ==
  {MkStore(<<>>), MkStore(<<<<1, FALSE>>>>), MkStore(<<<<MaxContent, FALSE>>>>),
   MkStore(<<<<1, FALSE>>, <<MaxContent, TRUE>>>>),
   content_new(MkStore(<<<<1, FALSE>>>>), HashOf(MaxContent), FALSE).st}
ServerStores ==
  {MkStore(<<>>), MkStore(<<<<1, FALSE>>>>),
   MkStore(<<<<1, FALSE>>, <<MaxContent, FALSE>>>>),
   MkStore(<<<<MaxContent, FALSE>>, <<1, TRUE>>>>)}
AnonCaps == {{}, {"Read"}, {"Read", "Write", "Clone"}}
FlagSets ==
  {{"PUSH", "PULL"}, {"PULL"}, {"PUSH"}, {"CLONE"}, {"PUSH", "PULL", "IFABLE"},
   {"PUSH", "RESYNC"}, {"PUSH", "PRIVATE"}}

SrvIdle ==
  [pc |-> "idle", in |-> <<>>, open |-> FALSE, nRead |-> 0, line |-> NoCard,
   isPull |-> FALSE, isPush |-> FALSE, isClone |-> FALSE, deltaFlag |-> FALSE,
   nIneed |-> 0, nErr |-> 0, perm |-> {}, login |-> "anonymous", late |-> FALSE,
   everLate |-> FALSE, sent |-> {}, txn |-> "none", before |-> EmptyStore]
CliIdle(flags) ==
  [pc |-> "idle", flags |-> flags, go |-> 1, nCycle |-> 0, nErr |-> 0,
   cloneSeqno |-> 1, mxPhantomReq |-> MxPhantomReq, newPhantom |-> FALSE,
   nArtifactRcvd |-> 0, nPriorArtifact |-> 0, autopushFailed |-> FALSE,
   nFileRecv |-> 0, seqnoRcvd |-> -1, nAuthErr |-> 0,
   nBegin |-> 0, nEnd |-> 0, nDrop |-> 0,
   pcode |-> IF "CLONE" \in flags THEN 0 ELSE ProjectCode,
   txn |-> "none", before |-> EmptyStore, sent |-> {},
   in |-> <<>>, open |-> FALSE, nRead |-> 0, line |-> NoCard]

Init ==
  /\ peer \in {"sync", "srv", "cli"}
  /\ sstore \in (IF peer = "cli" THEN {EmptyStore} ELSE ServerStores)
  /\ \E flags \in (IF peer = "srv" THEN {{}} ELSE FlagSets) :
       /\ cstore \in (IF peer = "srv" \/ "CLONE" \in flags THEN {EmptyStore}
                      ELSE ClientStores)
       /\ conf \in [anonCaps : IF peer = "cli" THEN {{}} ELSE AnonCaps,
                    user : IF peer = "sync" THEN {"alice", "bob", "anonymous"}
                           ELSE {"alice"},
                    flags : {flags}, A : {Held(cstore)}, B : {Held(sstore)},
                    maxCycle : {MaxCycle}, maxReply : {MaxReply}]
       /\ cli = CliIdle(flags)
  /\ srv = SrvIdle
  /\ sx = NewXfer(SrvMxSend, FALSE, 0)
  /\ cx = NewXfer(CliMxSend, FALSE, 0)
  /\ net = [st |-> "idle", req |-> <<>>, reply |-> <<>>]

Next ==
  \/ ServerBegin \/ SrvDeadline \/ SrvSkip \/ SrvAtom \/ SrvList \/ SrvNeed
  \/ SrvHave \/ SrvPullPush \/ SrvClone \/ SrvLogin \/ SrvUnknown \/ ServerEnd
  \/ ClientStart \/ ClientSend \/ ClientExchangeFail \/ ClientRecvBegin
  \/ CliComment \/ CliFile \/ CliCfile \/ CliGimme \/ CliIgot \/ CliPush
  \/ CliPrivate \/ CliCloneSeqno \/ CliMessage \/ CliPragma \/ CliError
  \/ CliUnknown \/ ClientEndCycle \/ ClientFinish

Spec == Init /\ [][Next]_vars

\* ------------------------------------------------- runs with many phantoms
\* A repository with artifact 1, f more artifacts and k phantoms
BigStore(f, k) ==
  [nodes |-> <<Node(HashOf(1), 1, FALSE)>>
               \o [i \in 1..f |-> Node(HashOf(10 + i), 10 + i, FALSE)]
               \o [j \in 1..k |-> Node(HashOf(1000 + j), 0, FALSE)],
   root |-> 1..(f + 1), shun |-> {}]
\* client_sync with SYNC_PUSH|SYNC_PULL against a foreign server, at the end
\* of the reply loop of its first cycle: the reply has been read, f files
\* were accepted from it and k phantoms are left
InitCap ==
  /\ peer = "cli"
  /\ sstore = EmptyStore
  /\ srv = SrvIdle
  /\ sx = NewXfer(SrvMxSend, FALSE, 0)
  /\ net = [st |-> "idle", req |-> <<>>, reply |-> <<>>]
  /\ \E f \in {0, 1, CapFiles}, k \in {0, CapPhantoms} :
       LET flags == {"PUSH", "PULL"}
           before == BigStore(0, k)
       IN /\ cstore = BigStore(f, k)
          /\ conf = [anonCaps |-> {}, user |-> "alice", flags |-> flags,
                     A |-> Held(before), B |-> {},
                     maxCycle |-> CapCycle, maxReply |-> CapReply]
          /\ cli = [CliIdle(flags) EXCEPT
                      !.pc = "recv", !.go = 0, !.open = TRUE, !.nRead = CapReply,
                      !.nArtifactRcvd = f, !.txn = "open", !.before = before,
                      !.nBegin = 1,
                      !.sent = {<<"have", HashOf(1)>>}]
          /\ cx = [create_temp(NewXfer(CliMxSend, FALSE, 0)) EXCEPT
                     !.out = ClientPrefix(flags, ProjectCode),
                     !.nFileRcvd = f, !.peerhave = 2..(f + 1),
                     !.nINeedSent = Min(k, MxPhantomReq)]
NextCap ==
  \/ ClientSend \/ ClientExchangeFail \/ ClientRecvBegin
  \/ CliComment \/ CliFile \/ CliCfile \/ CliGimme \/ CliIgot
  \/ CliPrivate \/ CliCloneSeqno \/ CliMessage \/ CliPragma \/ CliError
  \/ CliUnknown \/ ClientEndCycle \/ ClientFinish
SpecCap == InitCap /\ [][NextCap]_vars

\* ------------------------------------------- runs with many root entries
\* page_xfer serving a foreign client from a repository whose root table has
\* one entry less than create_list_node's threshold, or exactly as many
InitList ==
  /\ peer = "srv"
  /\ sstore \in {BigStore(ListThreshold - 2, 0), BigStore(ListThreshold - 1, 0)}
  /\ cstore = EmptyStore
  /\ conf \in [anonCaps : AnonCaps, user : {"alice"}, flags : {{}},
                A : {{}}, B : {Held(sstore)},
                maxCycle : {MaxCycle}, maxReply : {MaxReply}]
  /\ cli = CliIdle({})
  /\ srv = SrvIdle
  /\ sx = NewXfer(SrvMxSend, FALSE, 0)
  /\ cx = NewXfer(CliMxSend, FALSE, 0)
  /\ net = [st |-> "idle", req |-> <<>>, reply |-> <<>>]
\* (the foreign requests hold no comment line, so SrvSkip has no part)
NextList ==
  \/ ServerBegin \/ SrvDeadline \/ SrvAtom \/ SrvList \/ SrvNeed
  \/ SrvHave \/ SrvPullPush \/ SrvClone \/ SrvLogin \/ SrvUnknown \/ ServerEnd
SpecList == InitList /\ [][NextList]_vars

\* ------------------------------------------------- runs on one atom line
\* the atom lines: four or five tokens, a HASH that is a hash name or not,
\* and SIZE, BOFFSET, EOFFSET from -1 up
AtomLines ==
  {Card("atom", n, h, f[1], f[2], f[3], pay, "") :
     n \in {4, 5}, h \in {0} \cup Names,
     f \in [1..3 -> -1..MaxContent], pay \in Contents}
\* page_xfer in its card loop, serving a caller with every capability, with
\* one atom line left to read, before or after a push card
InitAtom ==
  /\ peer = "srv"
  /\ sstore \in ServerStores
  /\ cstore = EmptyStore
  /\ conf = [anonCaps |-> {"Read", "Write", "Clone"}, user |-> "alice", flags |-> {},
             A |-> {}, B |-> Held(sstore), maxCycle |-> MaxCycle, maxReply |-> MaxReply]
  /\ cli = CliIdle({})
  /\ \E line \in AtomLines, isPush \in BOOLEAN :
       srv = [SrvIdle EXCEPT !.pc = "loop", !.in = <<line>>, !.perm = conf.anonCaps,
                             !.isPush = isPush, !.nRead = IF isPush THEN 1 ELSE 0,
                             !.line = IF isPush THEN PushCard(ProjectCode) ELSE NoCard,
                             !.txn = "open", !.before = sstore]
  /\ sx = create_temp(NewXfer(SrvMxSend, FALSE, 0))
  /\ cx = NewXfer(CliMxSend, FALSE, 0)
  /\ net = [st |-> "idle", req |-> <<>>, reply |-> <<>>]
NextAtom == SrvAtom \/ ServerEnd
SpecAtom == InitAtom /\ [][NextAtom]_vars

\* ----------------------------------------------------------- properties
\* every artifact held is named by the hash of its content
NamesMatch(st) ==
  \A i \in Rids(st) : st.nodes[i].content # 0 =>
                        hname_verify_hash(st.nodes[i].content, st.nodes[i].uuid)
\* the cards of a message that carry an artifact body
Bodies(out) == {i \in 1..Len(out) : out[i].pay # 0}
ErrorsIn(out) == {i \in 1..Len(out) : out[i].kw = "error"}
\* a run of client_sync against page_xfer in which the transport never failed
\* and the server never ran out of time
CleanRun == peer = "sync" /\ cli.pc = "done" /\ cli.go # 2 /\ ~srv.everLate
AllPublic ==
  /\ \A i \in Rids(sstore) : ~sstore.nodes[i].priv
  /\ \A i \in Rids(cstore) : ~cstore.nodes[i].priv
\* page_xfer has just read a request line / client_sync a reply line
SrvReads == srv.pc = "loop" /\ srv'.nRead = srv.nRead + 1
CliReads == cli.pc = "recv" /\ cli'.nRead = cli.nRead + 1

\* C1: a client_sync run with SYNC_PUSH|SYNC_PULL by a user who may read and
\* write ends with zero errors and with both stores holding exactly A \cup B.
C1_FullSyncConverges ==
  (/\ CleanRun
   /\ {"PUSH", "PULL"} \subseteq conf.flags
   /\ conf.user \in {"alice", "bob"}
   /\ AllPublic)
  => /\ cli.nErr = 0
     /\ Held(cstore) = conf.A \cup conf.B
     /\ Held(sstore) = conf.A \cup conf.B

\* C2: a client_sync run with SYNC_CLONE into an empty store, by a caller
\* with the Clone capability, ends with the client holding exactly the
\* server's artifacts, every name matching the hash of its content.
C2_CloneRoundTrip ==
  (/\ CleanRun
   /\ "CLONE" \in conf.flags
   /\ "Clone" \in conf.anonCaps
   /\ conf.user = "alice"
   /\ AllPublic)
  => /\ Held(cstore) = conf.B
     /\ NamesMatch(cstore)

\* C3: no artifact is stored whose name differs from the hash of its
\* content: after page_xfer has committed a request, and in the client's
\* store at any time, every name is the hash of its content (a payload that
\* does not hash to its HASH token is not inserted).
C3_HashIntegrity ==
  /\ srv.txn = "committed" => NamesMatch(sstore)
  /\ NamesMatch(cstore)

\* C4: when page_xfer ends a request with a fatal error, the store after the
\* request equals the store before the request.
C4_RollbackOnFatalError ==
  (peer = "srv" /\ srv.pc = "done" /\ srv.nErr > 0) => sstore = srv.before

\* C5: in page_xfer the first error card ends the processing of request
\* cards, and the reply holds that error card and no other card (only the
\* closing timestamp comment follows it).
C5_FirstErrorOnlyReply ==
  /\ [][(SrvReads /\ ErrorsIn(sx.out) # {}) => FALSE]_vars
  /\ [][(srv.pc # "done" /\ srv'.pc = "done" /\ ErrorsIn(sx'.out) # {})
          => \A i \in 1..Len(sx'.out) : sx'.out[i].kw \in {"error", "#"}]_vars

AuthErrors ==
  {ErrorCard("not authorized to read"), ErrorCard("not authorized to write"),
   ErrorCard("not authorized to clone"), ErrorCard("login failed")}
\* C7: every authorization error of page_xfer is terminal: after the card
\* that caused it no further request card is processed, and exactly one
\* error is counted.
C7_AuthErrorTerminal ==
  [][(SrvReads /\ srv'.nErr # srv.nErr
        /\ \E i \in 1..Len(sx'.out) : sx'.out[i] \in AuthErrors)
       => srv'.pc = "post" /\ srv'.nErr = 1]_vars

\* page_xfer has just processed a login card: it went on, or it failed the
\* request with "login failed"
LoginAccepted == srv'.pc = "loop" /\ srv'.nErr = srv.nErr /\ sx' = sx
LoginRejected ==
  /\ srv'.pc = "post"
  /\ srv'.nErr = srv.nErr + 1
  /\ sx'.out = <<ErrorCard("login failed")>>
  /\ srv'.perm = srv.perm
\* the signatures check_login takes for a row of the user table
StoredSigs(login, nonce) ==
  {SigOf(nonce, UserRow(login).pw)}
  \cup (IF UserRow(login).hashed THEN {}
        ELSE {SigOf(nonce, sha1_shared_secret(UserRow(login).pw, login))})
C9_RequestGatedSending ==
  [][/\ (SrvReads /\ srv'.line.kw = "need" /\ Bodies(sx'.out) # Bodies(sx.out))
          => srv.isPull
     /\ (CliReads /\ cli'.line.kw = "gimme" /\ Bodies(cx'.out) # Bodies(cx.out))
          => "PUSH" \in cli.flags]_vars
C9_Witness ==
  /\ peer = "srv" /\ srv.pc = "loop" /\ srv.line.kw = "need" /\ srv.isPull
  /\ sx.out # <<>>
  /\ sx.out[Len(sx.out)] = FileCard(srv.line.h, srv.line.h - 100)

\* the artifact a need or gimme line asks for is private in the store
PrivateAsked(st, line) ==
  content_is_private(st, nid_lookup(st, line.h))
\* C10: when private content is not synced (syncPrivate = 0), a call of
\* send_node for a private artifact appends no body: it appends nothing, or,
\* for a peer of RecentDate or later, the card "have H 1"; peerhave is left
\* as it was.  Called without a name (clone 2), it appends no teaser either.
C10_PrivateNotLeaked ==
  [][/\ (SrvReads /\ srv'.line.kw = "need" /\ srv.isPull /\ ~sx.syncPrivate
           /\ PrivateAsked(sstore, srv'.line))
          => /\ sx'.peerhave = sx.peerhave
             /\ \/ sx'.out = sx.out
                \/ /\ sx'.out = Append(sx.out, HaveCard(srv'.line.h, 1))
                   /\ sx.remoteDate >= RecentDate
     /\ (SrvReads /\ srv'.line.kw = "clone" /\ ~sx.syncPrivate)
          => \A i \in 1..Len(sx'.out) :
               /\ sx'.out[i].pay # 0 =>
                     ~content_is_private(sstore, nid_lookup(sstore, sx'.out[i].h))
               /\ sx'.out[i].kw = "have" => sx'.out[i].n = 2
     /\ (CliReads /\ cli'.line.kw = "gimme" /\ "PUSH" \in cli.flags /\ ~cx.syncPrivate
           /\ PrivateAsked(cstore, cli'.line))
          => /\ cx'.peerhave = cx.peerhave
             /\ \/ cx'.out = cx.out
                \/ /\ cx'.out = Append(cx.out, HaveCard(cli'.line.h, 1))
                   /\ cx.remoteDate >= RecentDate]_vars
C10_Witness ==
  /\ peer = "cli" /\ cli.pc = "recv" /\ cli.line.kw = "gimme"
  /\ "PUSH" \in cli.flags /\ ~cx.syncPrivate
  /\ PrivateAsked(cstore, cli.line)
  /\ cx.out[Len(cx.out)] = HaveCard(cli.line.h, 1)
  /\ Bodies(cx.out) = {}

\* both sides hold the same artifacts, all of them public, and miss nothing:
\* the stores a successful sync leaves behind
InSync ==
  /\ conf.A = conf.B
  /\ AllPublic
  /\ Phantoms(cstore) = {} /\ Phantoms(sstore) = {}
\* C11: a client_sync run between two stores that are already in sync
\* transmits no artifact body in either direction and finishes with go = 0
\* and zero errors.
C11_Idempotence ==
  (/\ peer = "sync"
   /\ "CLONE" \notin conf.flags
   /\ conf.user \in {"alice", "bob"}
   /\ InSync)
  => /\ Bodies(net.req) = {} /\ Bodies(net.reply) = {}
     /\ CleanRun => (cli.nErr = 0 /\ cli.go = 0)

\* the end of a cycle after which client_sync goes round again
CycleContinues == cli.pc \in {"recv", "endcycle"} /\ cli'.pc = "top"
\* C12: the cycle loop of client_sync terminates because every cycle after
\* which it continues has made progress: it received the content of a
\* phantom, learned a new name, queued an artifact it had not sent before in
\* this run, or is one of the first two rounds of a clone (or the first round
\* with a private artifact announced).
C12_Termination ==
  [][CycleContinues
       => \/ \E i \in Phantoms(cli.before) : cstore.nodes[i].content # 0
          \/ Len(cstore.nodes) > Len(cli.before.nodes)
          \/ \E i \in Bodies(cx.out) : <<"file", cx.out[i].h>> \notin cli.sent
          \/ "CLONE" \in cli.flags /\ cli'.nCycle <= 2
          \/ cx.nPrivIGot > 0 /\ cli'.nCycle = 1]_vars

\* an error card that client_sync must not overlook: not the "not authorized
\* to write" of an if-able autopush and not in the first round of a clone
FatalErrorCard(card) ==
  /\ CliKind(card, cli.flags) = "error"
  /\ ~("IFABLE" \in cli.flags /\ card.s = "not authorized to write")
  /\ ("CLONE" \notin cli.flags \/ cli.nCycle > 0)
\* C13: a fatal error card is counted and ends the processing of the reply;
\* no further cycle is started after it; client_sync returns a non-zero
\* error count.
C13_ClientErrorPolicy ==
  /\ [][(CliReads /\ FatalErrorCard(cli'.line))
          => cli'.nErr = cli.nErr + 1 /\ cli'.pc = "endcycle"]_vars
  /\ [][(cli.pc = "endcycle" /\ FatalErrorCard(cli.line) /\ cli'.pc # "endcycle")
          => cli'.pc = "finish"]_vars
  /\ []((cli.pc = "done" /\ \E i \in 1..Len(cx.err) : cx.err[i] = "server says")
          => cli.nErr # 0)

\* C14: when http_exchange fails, client_sync counts one error and leaves
\* the loop with go = 2; no line of a reply is read afterwards, and the store
\* is the one the failed cycle began with.
C14_TransportFailure ==
  /\ [][(cli.pc = "wait" /\ cli'.pc # "recv" /\ cli'.pc # "wait")
          => /\ cli'.pc = "finish"
             /\ cli'.nErr = cli.nErr + 1
             /\ cli'.go = 2
             /\ cstore' = cstore]_vars
  /\ [][cli.go = 2 => (~CliReads /\ cstore' = cstore /\ cli'.go = 2)]_vars
  /\ [](cli.go = 2 => (cstore = cli.before /\ cli.nErr > 0))
C14_Witness ==
  /\ cli.pc = "done" /\ cli.go = 2 /\ cli.nCycle = 1 /\ cli.nErr = 1
  /\ cstore = cli.before /\ Phantoms(cstore) # {}
  /\ Len(cstore.nodes) > Cardinality(conf.A)
  /\ ~cx.temp

\* page_xfer has just read a push card for this project from a caller
\* without the Write capability
PushRefused ==
  /\ SrvReads /\ SrvKind(srv'.line) = "auth"
  /\ srv'.line.kw = "push" /\ srv'.line.h = ProjectCode
  /\ "Write" \notin srv.perm
PullOnlyMessage == MessageCard("pull only - not authorized to push")
\* C15 as stated: a push card from a caller lacking the Write capability raises
\* no error: page_xfer appends the "pull only" message card, leaves isPush
\* false and goes on with the remaining cards.
C15_Original ==
  [][PushRefused
       => /\ sx'.out = Append(sx.out, PullOnlyMessage)
          /\ srv'.nErr = srv.nErr
          /\ ~srv'.isPush
          /\ srv'.pc = "loop"]_vars
\* C15 (amended): a push card from a caller lacking the Write capability
\* leaves isPush false.  After an accepted pull card it raises no error: the
\* "pull only" message card is appended and the remaining cards are
\* processed.  Without an accepted pull card the reply so far is replaced by
\* "error not authorized to write" and one error is counted.
C15_PushWithoutWrite ==
  [][PushRefused
       => /\ ~srv'.isPush
          /\ IF srv.isPull
               THEN /\ sx'.out = Append(sx.out, PullOnlyMessage)
                    /\ srv'.nErr = srv.nErr
                    /\ srv'.pc = "loop"
               ELSE /\ sx'.out = <<ErrorCard("not authorized to write")>>
                    /\ srv'.nErr = srv.nErr + 1]_vars
C15_Witness ==
  /\ peer = "srv" /\ srv.pc = "loop" /\ srv.line = PushCard(ProjectCode)
  /\ "Write" \notin srv.perm /\ srv.isPull /\ ~srv.isPush /\ srv.nErr = 0
  /\ sx.out # <<>> /\ sx.out[Len(sx.out)] = PullOnlyMessage

\* client_sync was started in push mode and has been told "pull only"
Demoted ==
  /\ "PUSH" \in conf.flags /\ "CLONE" \notin conf.flags
  /\ "PUSH" \notin cli.flags
\* the cards of the push path in a message being composed
PushPath(msg) ==
  SelectSeq(msg, LAMBDA c : c.kw \in {"push", "have", "private", "file", "cfile"})
\* client_sync has just read the "pull only" message card while in push mode
ReadsPullOnly ==
  /\ CliReads /\ CliKind(cli'.line, cli.flags) = "message"
  /\ cli'.line.s = "pull only - not authorized to push"
  /\ "PUSH" \in cli.flags /\ cx.err = <<>>
\* C16 as stated: the "pull only" message card counts no error and does not
\* stop the sync, and no request sent after that reply holds a push card, a
\* have card or an artifact body.
C16_Original ==
  /\ [][ReadsPullOnly
          => /\ cli'.nErr = cli.nErr /\ cli'.pc = "recv"
             /\ "PUSH" \notin cli'.flags]_vars
  /\ [][(Demoted /\ cli.pc = "top" /\ cli'.pc = "wait")
          => PushPath(net'.req) = <<>>]_vars
\* C16 (amended): the "pull only" message card counts no error, does not stop
\* the sync and clears push mode.  From then on client_sync composes nothing
\* of the push path: later reply cards queue no body and no have card,
\* send_root is not run, and the messages begun afterwards start without a
\* push card.  The request that was already begun when the message was read
\* is still sent with what it held then (its push card, and the bodies queued
\* for gimme cards read before the message).
C16_ClientDowngrade ==
  /\ [][ReadsPullOnly
          => /\ cli'.nErr = cli.nErr /\ cli'.pc = "recv"
             /\ "PUSH" \notin cli'.flags
             /\ cx' = cx]_vars
  /\ [][(Demoted /\ CliReads) => PushPath(cx'.out) = PushPath(cx.out)]_vars
  /\ [][(Demoted /\ cli.pc = "top" /\ cli'.pc = "wait")
          => PushPath(net'.req) = PushPath(cx.out)]_vars
  /\ [][(Demoted /\ cli.pc = "wait" /\ cli'.pc = "recv")
          => PushPath(cx'.out) = <<>>]_vars
C16_Witness ==
  /\ Demoted /\ cli.pc = "recv" /\ cli.nCycle = 1 /\ cli.nErr = 0
  /\ PushPath(cx.out) = <<>>
  /\ cli.sent \cap {<<"file", h>> : h \in Names} # {}

\* the artifact-body bytes a message carries
RECURSIVE BodyBytes(_)
BodyBytes(out) ==
  IF out = <<>> THEN 0
  ELSE (IF Head(out).pay = 0 THEN 0 ELSE SizeOf(Head(out).pay)) + BodyBytes(Tail(out))
\* what send_node may do to the output once it is full or late
OnlyHave(out1, out, h) ==
  \/ out1 = out
  \/ \E p \in {0, 1} : out1 = Append(out, HaveCard(h, p))
\* C17: send_node appends an artifact body only while the output is smaller
\* than mxSend and the deadline has not passed; otherwise it appends at most
\* a have card.  A message never carries more body bytes than mxSend plus
\* one artifact.
C17_BackPressure ==
  /\ [][(SrvReads /\ SrvKind(srv'.line) = "need"
           /\ (OutSize(sx.out) >= sx.mxSend \/ srv.late))
          => OnlyHave(sx'.out, sx.out, srv'.line.h)]_vars
  /\ [][(CliReads /\ CliKind(cli'.line, cli.flags) = "gimme"
           /\ OutSize(cx.out) >= cx.mxSend)
          => OnlyHave(cx'.out, cx.out, cli'.line.h)]_vars
  /\ [](/\ BodyBytes(sx.out) <= sx.mxSend + SizeOf(MaxContent)
        /\ BodyBytes(cx.out) <= cx.mxSend + SizeOf(MaxContent))
C17_Witness ==
  /\ peer = "srv" /\ srv.pc = "loop" /\ srv.line.kw = "need" /\ srv.isPull
  /\ ~srv.late
  /\ Bodies(sx.out) # {}
  /\ sx.out[Len(sx.out)] = HaveCard(srv.line.h, 0)
  /\ OutSize(sx.out) > sx.mxSend

\* client_sync has just read a have card, the card send_node writes in place
\* of a body when the output is full
ReadsHave ==
  /\ CliReads /\ cli'.line.kw = "have" /\ cli'.line.n \in {2, 3}
  /\ blob_is_hname(cli'.line.h) /\ cx.err = <<>>
\* C18: a have card received in place of a body causes no error on the
\* receiving side, and a pulling client that lacks the artifact notes it as
\* missing, to request it in its next cycle.
C18_BackPressureRecovery ==
  [][ReadsHave
       => /\ cli'.nErr = cli.nErr /\ cli'.pc = "recv"
          /\ ("PULL" \in cli.flags /\ cli'.line.n = 2
                /\ nid_lookup(cstore, cli'.line.h) = 0)
               => nid_lookup(cstore', cli'.line.h) \in Phantoms(cstore')]_vars

\* no temp table exists and nothing is left of one
NoTemp(x) == ~x.temp /\ x.peerhave = {} /\ x.peerneed = {}
\* C19: peerhave and peerneed exist from the start of a client cycle or a
\* server request to its end and are empty at its start; outside of it they
\* do not exist, whichever way the cycle or request ended.
C19_EphemeralIndex ==
  /\ cli.pc \in {"idle", "top", "done"} => NoTemp(cx)
  /\ cli.pc = "finish" => (IF cli.go = 2 THEN cx.temp ELSE NoTemp(cx))
  /\ cli.pc \in {"wait", "recv", "endcycle"} => cx.temp
  /\ cli.pc = "wait" => (cx.peerhave = {} /\ cx.peerneed = {})
  /\ srv.pc \in {"idle", "done"} => NoTemp(sx)
  /\ srv.pc \in {"loop", "post"} => sx.temp
  /\ (srv.pc = "loop" /\ srv.nRead = 0) => (sx.peerhave = {} /\ sx.peerneed = {})
C19_Witness ==
  /\ peer = "cli" /\ cli.pc = "wait" /\ cli.nCycle = 1
  /\ cx.temp /\ cx.peerhave = {} /\ cx.peerneed = {}
  /\ Bodies(cx.out) # {}

\* no name is in two have, file or cfile cards of the message, nor in a card
\* sent before
NoRepeat(msg, sent) ==
  /\ \A i, j \in 1..Len(CardNames(msg)) :
       i # j => CardNames(msg)[i].h # CardNames(msg)[j].h
  /\ \A i \in 1..Len(CardNames(msg)) :
       \A p \in sent : p[2] # CardNames(msg)[i].h
\* C20: over all the cycles of a run, no name is in more than one have or
\* file card sent by the same side.
C20_SentOnce ==
  /\ [][(cli.pc = "top" /\ cli'.pc = "wait") => NoRepeat(net'.req, cli.sent)]_vars
  /\ [][(srv.pc # "done" /\ srv'.pc = "done") => NoRepeat(sx'.out, srv.sent)]_vars

\* the Xfer with which client_sync calls send_root in the cycle that begins
BeforeSendRoot ==
  IF "PULL" \in cli.flags \/ ("CLONE" \in cli.flags /\ cli.cloneSeqno = 1)
    THEN request_partials(create_temp(cx), cstore, cli.mxPhantomReq)
    ELSE create_temp(cx)
\* xfer.resync after each of the rows send_root steps through
ResyncSteps(x, st) ==
  [k \in 0..Len(send_root_rows(x, st)) |->
     SendRootLoop(x, st, SubSeq(send_root_rows(x, st), 1, k)).resync]
NonIncreasing(f) == \A k \in DOMAIN f : k > 0 => f[k] <= f[k - 1]
\* C21: over a session xfer.resync never grows: every value send_root
\* assigns to it is at most the value it had, and once it is 0 it stays 0.
C21_ResyncMonotone ==
  /\ [][cli.pc # "idle" => cx'.resync <= cx.resync]_vars
  /\ [][(cli.pc # "idle" /\ cx.resync = 0) => cx'.resync = 0]_vars
  /\ [][(cli.pc = "top" /\ cli'.pc = "wait" /\ "PUSH" \in cli.flags)
          => NonIncreasing(ResyncSteps(BeforeSendRoot, cstore))]_vars
  /\ [][sx'.resync <= sx.resync]_vars
C21_Witness ==
  /\ "RESYNC" \in conf.flags /\ cli.pc = "wait" /\ cli.nCycle = 1
  /\ cx.resync = 0 /\ Len(cstore.nodes) > 1

\* C22: a pragma card in a request adds no error card to the reply and does
\* not end the processing of the request; the "pragma client-version" card
\* at the head of every request of client_sync is accepted by page_xfer.
C22_PragmaAccepted ==
  [][(SrvReads /\ srv'.line.kw = "pragma")
       => /\ Cardinality(ErrorsIn(sx'.out)) <= Cardinality(ErrorsIn(sx.out))
          /\ srv'.nErr = srv.nErr
          /\ srv'.pc = "loop"]_vars

\* out1 is out with cards appended
Extends(out, out1) == Len(out) <= Len(out1) /\ SubSeq(out1, 1, Len(out)) = out
\* every file card appended to out that holds an artifact private in st comes
\* right after a private card
PrivateMarked(out, out1, st) ==
  \A i \in (Len(out) + 1)..Len(out1) :
    (out1[i].kw = "file" /\ content_is_private(st, nid_lookup(st, out1[i].h)))
      => (i > 1 /\ out1[i - 1] = PrivateCard)
\* every private card of the message is followed directly by a file card
PrivateFollowed(out) ==
  \A i \in 1..Len(out) :
    out[i].kw = "private" => (i < Len(out) /\ out[i + 1].kw = "file")
\* C23: the file card of a private artifact is emitted right after a bare
\* private card, and no private card is emitted without the file card
\* following it directly.
C23_PrivateBeforeFile ==
  /\ [][Extends(cx.out, cx'.out) => PrivateMarked(cx.out, cx'.out, cstore)]_vars
  /\ [][Extends(sx.out, sx'.out) => PrivateMarked(sx.out, sx'.out, sstore)]_vars
  /\ [](PrivateFollowed(cx.out) /\ PrivateFollowed(sx.out)
          /\ PrivateFollowed(net.req) /\ PrivateFollowed(net.reply))
C23_Witness ==
  \E i \in 1..Len(net.req) :
    /\ net.req[i] = PrivateCard
    /\ net.req[i + 1].kw = "file"
    /\ content_is_private(cstore, nid_lookup(cstore, net.req[i + 1].h))

\* the capabilities the user table grants to a login
Granted(login) ==
  IF login \in UserLogins \ ReservedLogins THEN UserRow(login).cap ELSE {}
LoginFails(c) ==
  /\ c.s \notin {"nobody", "anonymous"}
  /\ \/ c.s \notin UserLogins
     \/ c.s \in ReservedLogins
     \/ UserRow(c.s).pw = 0
     \/ c.b \notin StoredSigs(c.s, c.a)
\* C25: a login that fails a check of check_login (unknown or reserved user,
\* empty password, signature matching neither the stored nor the derived
\* secret) returns non-zero and leaves the privileges and the login name of
\* the session as they were.
C25_FailedLoginFrame ==
  [][(SrvReads /\ SrvKind(srv'.line) = "login" /\ LoginFails(srv'.line))
       => /\ check_login(srv.perm, srv'.line.s, srv'.line.a, srv'.line.b).rc # 0
          /\ check_login(srv.perm, srv'.line.s, srv'.line.a, srv'.line.b).perm = srv.perm
          /\ srv'.perm = srv.perm
          /\ srv'.login = srv.login
          /\ srv'.pc = "post" /\ srv'.nErr = srv.nErr + 1]_vars
C25_Witness ==
  /\ peer = "srv" /\ srv.pc = "post" /\ srv.line.kw = "login"
  /\ srv.line.a = MsgHash(srv.in)
  /\ srv.line.s = "alice" /\ LoginFails(srv.line)
  /\ srv.login = "bob" /\ srv.perm = UserRow("bob").cap

\* client_sync ends a cycle: nCycle++ and the computation of go
EndsCycle == cli.pc \in {"recv", "endcycle"} /\ cli'.nCycle = cli.nCycle + 1
\* C27 as stated: at the end of a clone cycle the client continues whenever
\* artifacts arrived in the cycle or the last clone_seqno received is greater
\* than 0 (taken here for the cycles whose reply ended with that card).
C27_Original ==
  [][(EndsCycle /\ "CLONE" \in cli.flags
        /\ (\/ cli.nArtifactRcvd > cli.nPriorArtifact
            \/ cli.cloneSeqno > 0 /\ cli.line = CloneSeqnoCard(cli.cloneSeqno)))
       => cli'.go # 0]_vars
\* C27 (amended): at the end of a clone cycle the client continues when the
\* cycle was the first, when a file was accepted in it, or when the last
\* clone_seqno received is greater than 0 and an artifact card arrived in the
\* cycle; from the second cycle on, a cycle in which no artifact card arrived
\* and no phantom was created ends the clone, whatever the clone_seqno.
C27_CloneContinuation ==
  [][(EndsCycle /\ "CLONE" \in cli.flags)
       => /\ (\/ cli'.nCycle = 1
              \/ cx.nFileRcvd > 0
              \/ cli.cloneSeqno > 0 /\ cli.nArtifactRcvd > cli.nPriorArtifact)
               => cli'.go = 1
          /\ (/\ cli'.nCycle > 1
              /\ cli.nArtifactRcvd = cli.nPriorArtifact
              /\ ~(cli.newPhantom /\ Phantoms(cstore) # {})
              /\ cx.nFileSent = 0)
               => cli'.go = 0]_vars
C27_Witness ==
  /\ "CLONE" \in cli.flags /\ cli.pc = "top" /\ cli.nCycle = 2 /\ cli.go = 1
  /\ cli.cloneSeqno > 0 /\ cli.nArtifactRcvd > cli.nPriorArtifact
  /\ cli.nFileRecv = 0

\* C28: a clone whose transport does not fail goes through at least two
\* cycles: the first cycle ends with go = 1 whatever the reply held, and
\* client_sync leaves its loop with go = 0 only after a second cycle.
C28_CloneTwoRounds ==
  /\ [][(EndsCycle /\ "CLONE" \in cli.flags /\ cli.nCycle = 0)
          => (cli'.go = 1 /\ cli'.pc = "top")]_vars
  /\ [](("CLONE" \in conf.flags /\ cli.pc \in {"finish", "done"} /\ cli.go # 2)
          => cli.nCycle >= 2)
C28_Witness ==
  /\ "CLONE" \in cli.flags /\ cli.pc = "wait" /\ cli.nCycle = 1
  /\ cli.line.kw = "error" /\ net.st = "req"

\* C29: the errors value of the closing timestamp line of a reply is 0
\* exactly when page_xfer emitted no error card for the request (an emitted
\* error card is never taken back: what discards the reply emits another).
C29_ErrorCount ==
  [][(srv.pc # "done" /\ srv'.pc = "done")
       => LET ts == sx'.out[Len(sx'.out)]
          IN /\ ts = CommentCard("timestamp", srv.nErr)
             /\ (ts.a = 0) <=> (ErrorsIn(sx'.out) = {})]_vars

\* a pull or push card with the project code of another project
WrongProject(c) == SrvKind(c) = "auth" /\ c.h # ProjectCode
\* C30: a pull or push card with another project's code sets neither isPull
\* nor isPush, makes the reply "error wrong project", counts an error and
\* ends the processing of the request: no later card is read.
C30_WrongProject ==
  /\ [][(SrvReads /\ WrongProject(srv'.line))
          => /\ srv'.isPull = srv.isPull /\ srv'.isPush = srv.isPush
             /\ sx'.out = <<ErrorCard("wrong project")>>
             /\ srv'.nErr = srv.nErr + 1
             /\ srv'.pc = "post"]_vars
  /\ [][(srv.pc \in {"post", "done"} /\ WrongProject(srv.line))
          => (srv'.nRead = srv.nRead \/ (srv'.pc = "loop" /\ srv'.nRead = 0))]_vars
C30_Witness ==
  /\ srv.pc = "done" /\ srv.line = PushCard(OtherProjectCode)
  /\ srv.isPull /\ ~srv.isPush /\ srv.nRead < MaxCards
  /\ sx.out[1] = ErrorCard("wrong project")

\* the number of artifact requests in a message
Requests(msg) == Len(SelectSeq(msg, LAMBDA c : c.kw \in {"gimme", "ineed"}))
\* C26: the request of a client cycle holds at most max(200, 2 x nFileRecv)
\* artifact-request cards, nFileRecv being the number of files received in
\* the cycle before.
C26_RequestCap ==
  [][(cli.pc = "top" /\ cli'.pc = "wait")
       => Requests(net'.req)
            <= (IF 2 * cli.nFileRecv < MxPhantomReq THEN MxPhantomReq
                ELSE 2 * cli.nFileRecv)]_vars

\* the Xfer with which page_xfer calls send_root after the card loop
SrvBeforeSendRoot ==
  IF srv.isPush THEN request_partials(sx, sstore, SrvPartialReq) ELSE sx
\* none of the rows is a node recorded in peerhave, a phantom, a private
\* node or a shunned one
Announceable(rows, x, st) ==
  \A k \in 1..Len(rows) :
    /\ rows[k] \notin x.peerhave
    /\ st.nodes[rows[k]].content # 0
    /\ ~content_is_private(st, rows[k])
    /\ ~uuid_is_shunned(st, st.nodes[rows[k]].uuid)
\* C31: send_root emits no have card for an artifact that is shunned, a
\* phantom, private, or recorded in peerhave in this cycle.
C31_SendRootFilter ==
  /\ [][(srv.pc # "done" /\ srv'.pc = "done" /\ srv.isPull
           /\ ~(srv.isClone /\ srv.nIneed = 0))
          => Announceable(send_root_rows(SrvBeforeSendRoot, create_list_node(sstore)),
                          SrvBeforeSendRoot, sstore)]_vars
  /\ [][(cli.pc = "top" /\ cli'.pc = "wait" /\ "PUSH" \in cli.flags)
          => Announceable(send_root_rows(BeforeSendRoot, cstore),
                          BeforeSendRoot, cstore)]_vars

\* no card is appended to out once it holds more than mxSend
StopsWhenFull(out, out1, mxSend) ==
  \A k \in (Len(out) + 1)..(Len(out1) - 1) : OutSize(SubSeq(out1, 1, k)) <= mxSend
\* C32: in resync mode send_root steps through the ids <= resync in
\* descending order and emits no have card once the message is larger than
\* mxSend, leaving the rest of the sweep to the next cycle.
C32_ResyncSweep ==
  [][(cli.pc = "top" /\ cli'.pc = "wait" /\ "PUSH" \in cli.flags /\ cx.resync # 0)
       => StopsWhenFull(BeforeSendRoot.out, send_root(BeforeSendRoot, cstore).out,
                        cx.mxSend)]_vars

\* the artifact named h is a node of st recorded in peerhave
InPeerHave(x, st, h) == nid_lookup(st, h) # 0 /\ nid_lookup(st, h) \in x.peerhave
\* the cards of out that hold the body of the artifact named h
BodiesOf(out, h) == {i \in Bodies(out) : out[i].h = h}
\* no two file cards of out hold the same artifact
OneBody(out) ==
  \A i, j \in 1..Len(out) :
    (out[i].kw = "file" /\ out[j].kw = "file" /\ out[i].h = out[j].h) => i = j
CloneCards(msg) == {i \in 1..Len(msg) : msg[i].kw = "clone"}
\* C34 as stated: the request that follows a reply with "clone_seqno N",
\* N > 0, holds "clone 3 N"; once "clone_seqno 0" has been read no request
\* holds a clone card.
C34_Original ==
  /\ [][(cli.pc = "top" /\ cli'.pc = "wait" /\ cli.seqnoRcvd > 0)
          => \E i \in CloneCards(net'.req) :
               net'.req[i] = CloneCard(CloneVersion, cli.seqnoRcvd)]_vars
  /\ [][(cli.pc = "top" /\ cli'.pc = "wait" /\ cli.seqnoRcvd = 0)
          => CloneCards(net'.req) = {}]_vars
\* the cards of msg that are clone cards, in order
CloneSeq(msg) == SelectSeq(msg, LAMBDA c : c.kw = "clone")
\* C34: "clone 3 N" is added to the next request when a push card is read
\* while the cursor N is above 0, N being the value of the last clone_seqno
\* card read; a clone_seqno card only sets the cursor, and a push card read
\* while the cursor is 0 adds nothing.
C34_CloneCursor ==
  /\ [][(CliReads /\ CliKind(cli'.line, cli.flags) = "push")
          => cx'.out = IF cli.cloneSeqno > 0
                         THEN Append(cx.out, CloneCard(CloneVersion, cli.cloneSeqno))
                         ELSE cx.out]_vars
  /\ [][(CliReads /\ CliKind(cli'.line, cli.flags) = "clone_seqno")
          => cx'.out = cx.out /\ cli'.cloneSeqno = cli'.line.a]_vars
  /\ [][(cli.pc = "top" /\ cli'.pc = "wait" /\ cli.nCycle >= 1)
          => CloneSeq(net'.req) = CloneSeq(cx.out)]_vars
\* the request after a reply "clone_seqno 2", "push ..." is on its way
C34_Witness ==
  /\ cli.pc = "wait" /\ cli.nCycle = 1 /\ cli.seqnoRcvd = 2 /\ cli.line.kw = "push"
  /\ CloneSeq(net.req) = <<CloneCard(CloneVersion, 2)>>

\* the names of the phantoms created since the last request was sent
NewPhantoms ==
  {cstore.nodes[i].uuid : i \in {j \in Phantoms(cstore) : j > Len(cli.before.nodes)}}
\* msg holds a request card for the artifact named h
Requested(msg, h) ==
  \E i \in 1..Len(msg) : msg[i].kw \in {"gimme", "ineed"} /\ msg[i].h = h
\* what client_sync does with the store when it reads an igot card
IgotStore ==
  [][(CliReads /\ CliKind(cli'.line, cli.flags) = "igot")
       => LET h == cli'.line.h
              isPriv == cli'.line.n >= 3 /\ cli'.line.a = 1
              rid == nid_lookup(cstore, h)
          IN /\ rid # 0 => cstore' = [cstore EXCEPT !.nodes[rid].priv = isPriv]
             /\ (rid = 0 /\ cstore' # cstore)
                  => /\ cli.flags \cap {"PULL", "CLONE"} # {}
                     /\ ~isPriv \/ "PRIVATE" \in cli.flags
                     /\ cstore' = [cstore EXCEPT !.nodes = Append(@, Node(h, 0, isPriv))]
             /\ cli.flags \cap {"PULL", "CLONE"} = {} => cstore'.nodes = cstore.nodes
                                                          \/ rid # 0]_vars
\* C35 as stated: an igot card for an unknown name makes a phantom only in a
\* pulling or cloning client, and only when the card is not private or
\* private sync is permitted; the next request then asks for it; for a name
\* already known only the private bit changes; a push-only client never
\* makes a phantom.
C35_Original ==
  /\ IgotStore
  /\ [][(cli.pc = "top" /\ cli'.pc = "wait" /\ cli.nCycle >= 1)
          => \A h \in NewPhantoms : Requested(net'.req, h)]_vars
\* C35: as above, but the next request asks for the phantom when the client
\* pulls, or clones with its cursor still at 1, and the phantoms are no more
\* than mxPhantomReq.
C35_IgotPhantom ==
  /\ IgotStore
  /\ [][(cli.pc = "top" /\ cli'.pc = "wait" /\ cli.nCycle >= 1
           /\ ("PULL" \in cli.flags \/ ("CLONE" \in cli.flags /\ cli.cloneSeqno = 1))
           /\ Cardinality(Phantoms(cstore)) <= cli.mxPhantomReq)
          => \A h \in NewPhantoms : Requested(net'.req, h)]_vars
\* a pulling client has read an igot card for an unknown name, and the
\* request it is about to compose asks for the phantom
C35_Witness ==
  /\ cli.pc = "top" /\ cli.nCycle = 1 /\ "PULL" \in cli.flags
  /\ cli.line.kw = "igot" /\ cli.line.h \in NewPhantoms
  /\ Requested(BeforeSendRoot.out, cli.line.h)

\* C36: create_list_node leaves the root table as it was, whatever the
\* number of entries, so the send_root that follows emits the have cards it
\* would have emitted without the call.
C36_ListNoOp ==
  [][(srv.pc # "done" /\ srv'.pc = "done" /\ srv.isPull
        /\ ~(srv.isClone /\ srv.nIneed = 0))
       => /\ sstore'.root = sstore.root
          /\ send_root(SrvBeforeSendRoot, create_list_node(sstore)).out
               = send_root(SrvBeforeSendRoot, sstore).out]_vars

\* an atom line the claim calls malformed: not five tokens, HASH not a hash
\* name, SIZE, BOFFSET or EOFFSET not an integer or negative, EOFFSET > SIZE
BadAtomLine(card) ==
  \/ card.n # 5
  \/ ~blob_is_hname(card.h)
  \/ card.a < 0 \/ card.b < 0 \/ card.c < 0
  \/ card.c > card.a
\* the request is aborted with "malformed atom line": nothing taken from the
\* input, nothing stored, peerhave as it was
AtomRejected ==
  /\ sx'.out = <<ErrorCard("malformed atom line")>>
  /\ AtomExtracted(srv'.line) = 0
  /\ sstore' = sstore
  /\ sx'.peerhave = sx.peerhave
  /\ srv'.nErr = srv.nErr + 1 /\ srv'.pc = "post"
\* C37 as stated: every malformed atom line is answered by the error
\* "malformed atom line", with no payload taken, the store and peerhave
\* unchanged and the request aborted.
C37_Original ==
  [][(SrvReads /\ srv'.line.kw = "atom" /\ BadAtomLine(srv'.line)) => AtomRejected]_vars
\* C37: a malformed atom line from a client whose push card was accepted is
\* answered by the error "malformed atom line", with no payload taken, the
\* store and peerhave unchanged and the request aborted.
C37_MalformedAtom ==
  [][(SrvReads /\ srv'.line.kw = "atom" /\ srv.isPush /\ BadAtomLine(srv'.line))
       => AtomRejected]_vars
\* a line with EOFFSET > SIZE has been refused after a push card
C37_Witness ==
  /\ srv.pc = "post" /\ srv.isPush /\ srv.line.kw = "atom"
  /\ srv.line.n = 5 /\ srv.line.c > srv.line.a /\ srv.line.b >= 0
  /\ sx.out = <<ErrorCard("malformed atom line")>>

\* C38: for an atom line that passes the checks of xfer_accept_atom_node the
\* number of payload bytes taken, EOFFSET - BOFFSET, is at least 0 and at
\* most SIZE.
C38_AtomPayload ==
  [][(SrvReads /\ srv'.line.kw = "atom" /\ srv.isPush /\ ~AtomMalformed(srv'.line))
       => /\ 0 <= AtomExtracted(srv'.line)
          /\ AtomExtracted(srv'.line) <= srv'.line.a]_vars

\* client_sync reads a "not authorized to write" error card under SYNC_IFABLE
ReadsAuthError ==
  /\ cli.pc = "recv" /\ "IFABLE" \in cli.flags
  /\ cli'.nAuthErr = cli.nAuthErr + 1
\* client_sync returns from a SYNC_IFABLE session whose errors were all
\* "not authorized to write" error cards
ReturnsAfterAuthErrors ==
  /\ cli.pc = "finish" /\ cli'.pc = "done"
  /\ "IFABLE" \in cli.flags
  /\ cli.nAuthErr > 0 /\ cli.nErr = cli.nAuthErr
\* C39: in a SYNC_IFABLE session whose only errors are "not authorized to
\* write" error cards, such a card does not stop the processing of the reply
\* (the cards after it are still read and the cycle is not broken off), and
\* client_sync returns 0 however many such cards it received.
C39_AutopushDowngrade ==
  /\ [][ReadsAuthError => (cli'.pc = "recv" /\ cx' = cx)]_vars
  /\ [][ReturnsAfterAuthErrors => cli'.nErr = 0]_vars

\* C40: in client_sync every db_begin_transaction (which is followed by the
\* creation of peerhave and peerneed) is matched by exactly one
\* db_end_transaction and exactly one drop of the two tables, on every path
\* out of the cycle loop: never more ends or drops than begins, one of each
\* outstanding exactly while a cycle is under way or a transport failure
\* waits for the clean-up after the loop, and when client_sync returns the
\* counts are equal, no transaction is open and the tables do not exist.
C40_TxnBalance ==
  /\ cli.nEnd <= cli.nBegin /\ cli.nDrop <= cli.nBegin
  /\ cli.nDrop = cli.nEnd
  /\ (cli.txn = "open") <=> (cli.nBegin = cli.nEnd + 1)
  /\ cx.temp <=> (cli.nBegin = cli.nDrop + 1)
  /\ cli.pc \in {"top", "done"}
       => (cli.nEnd = cli.nBegin /\ cli.nDrop = cli.nBegin /\ cli.txn # "open" /\ ~cx.temp)
  /\ cli.pc = "finish"
       => (cli.nBegin = cli.nEnd + (IF cli.go = 2 THEN 1 ELSE 0) /\ (cli.go = 2 => cli.nErr # 0))
\* client_sync has returned after a completed cycle and a transport failure in
\* the cycle after it
C40_Witness ==
  /\ cli.pc = "done" /\ cli.go = 2 /\ cli.nErr # 0
  /\ cli.nBegin = 2 /\ cli.nEnd = 2 /\ cli.nDrop = 2
  /\ cli.txn = "committed" /\ ~cx.temp
====
